---- MODULE Spec2Model ----
(***************************************************************************)
(* Roster allocation and waitlist promotion of the tee-time manager.       *)
(*                                                                         *)
(* One event's roster is modelled as the two tables the engine works on:   *)
(*   responses  the rows of table responses of the event, one per golfer   *)
(*              (UNIQUE(event_id, golfer_id)): status and position;        *)
(*   guests     the rows of table guests of the event, in rowid order.     *)
(* recordResponse has no await between its database statements (the only   *)
(* await, of bumpWaitlist, suspends after updatePosition has run), so one  *)
(* call is one atomic step.                                                *)
(*                                                                         *)
(* Two history variables record what the tables do not keep:               *)
(*   last       the latest recordResponse call: its arguments, the locals  *)
(*              wasIn and previousPosition, the position it returned and   *)
(*              what bumpWaitlist returned inside it;                      *)
(*   waitQueue  the waitlisted golfers in the order of responded_at, which *)
(*              upsertResponse sets and updatePosition leaves alone.       *)
(*                                                                         *)
(* Around the engine:                                                      *)
(*   events     table events, in rowid order: the status of each event;    *)
(*              responses and guests are the rows of the newest event;     *)
(*   inbound    the latest text message received by the /sms webhook;      *)
(*   reply      what the latest handler returned to its caller;            *)
(*   pending    the calls suspended at an await, each with the locals it   *)
(*              keeps across the await;                                    *)
(*   serial     the tables as they would be had every call run to its end  *)
(*              before the next began (history variable);                  *)
(*   golfers    table golfers, in rowid order: name, phone and active;     *)
(*   sent       what sendToMany returned in the latest handler (history    *)
(*              variable; NoSend when the handler did not call it);        *)
(*   archive    the rows of tables responses and guests that belong to the *)
(*              events before the newest, by event id. No handler reads    *)
(*              them; they are kept in the specification about earlier     *)
(*              events (SpecEvents) and left out (Untracked) in the others.*)
(***************************************************************************)
EXTENDS Integers, Sequences, FiniteSets, TLC

\* ---------------------------------------------------------------- bounds
NumGolfers == 4        \* registered golfers that reply in Spec
BigParty == 15         \* the guest count of a reply that brings guests
MaxPosition == 18      \* calls that would hand out a larger position are cut off
NumSeqGolfers == 17    \* golfers of the in-only scenario SpecIns
NumDashGolfers == 2    \* golfers of the dashboard specification SpecDash
NumSmsGolfers == 2     \* registered golfers of the message specification SpecSms
MaxEvents == 3         \* events created in SpecSms
NumConcGolfers == 2    \* golfers whose calls overlap in SpecConc
MaxInFlight == 2       \* calls suspended at an await at the same time
NumNames == 2          \* names the manager types
NumPhones == 2         \* ten-digit numbers the manager types
MaxGolferRows == 2     \* rows of table golfers in SpecGolfers
NumPartyGolfers == 2   \* golfers of the guest-count specification SpecParty
MaxParty == 2          \* the largest small guest count of a reply in SpecParty
NumEventRepliers == 1  \* golfers that reply to the events of SpecEvents

\* ------------------------------------------------------- program constants
MAX_PLAYERS == 16      \* events.js: const MAX_PLAYERS = 16
WAITLIST_FLOOR == 16   \* db.js: the literal 16 of the waitlist queries

Golfers == 1..NumGolfers
GuestCounts == {0, BigParty}
NoGolfer == 0          \* "no row" / null golfer
NullPos == 0           \* SQL NULL in column position

VARIABLES responses, guests, last, waitQueue, events, inbound, reply, pending, serial,
          golfers, sent, archive
vars == <<responses, guests, last, waitQueue, events, inbound, reply, pending, serial,
          golfers, sent, archive>>
rosterVars == <<responses, guests, last, waitQueue>>
smsVars == <<events, inbound, reply>>
callVars == <<pending, serial>>

\* The earlier events' rows when a specification keeps them, and when not.
NoArchive == [tracked |-> TRUE, rows |-> <<>>]
Untracked == [tracked |-> FALSE, rows |-> <<>>]

\* ----------------------------------------------------------------- helpers
SetMax(S) == CHOOSE x \in S : \A y \in S : y <= x
SetMin(S) == CHOOSE x \in S : \A y \in S : x <= y

\* Rows of responses with status 'in'.
InGolfers(resp) == {g \in DOMAIN resp : resp[g].status = "in"}

\* db.getInCountForEvent: COUNT(*) WHERE status = 'in'
getInCountForEvent(resp) == Cardinality(InGolfers(resp))

\* db.getGuestCountForEvent: COUNT(*) of the event's guests
getGuestCountForEvent(gs) == Len(gs)

\* events.js getTotalConfirmedCount: responses in + guests
getTotalConfirmedCount(resp, gs) ==
  getInCountForEvent(resp) + getGuestCountForEvent(gs)

\* Variant of getNextWaitlistPosition that forgets the + 1.
getNextWaitlistPositionNoIncrement(resp) ==
  LET W == {resp[g].position : g \in {h \in InGolfers(resp) : resp[h].position > WAITLIST_FLOOR}}
  IN  IF W = {} THEN WAITLIST_FLOOR ELSE SetMax(W)

\* db.getNextWaitlistPosition: COALESCE(MAX(position), 16) + 1 over the
\* in-responses with position > 16 (guests are not part of the query).
getNextWaitlistPosition(resp) ==
  LET W == {resp[g].position : g \in {h \in InGolfers(resp) : resp[h].position > WAITLIST_FLOOR}}
  IN  (IF W = {} THEN WAITLIST_FLOOR ELSE SetMax(W)) + 1

\* db.getGuestsByHost: the host's guest rows (indices into guests), rowid order.
getGuestsByHost(gs, g) ==
  SelectSeq([i \in 1..Len(gs) |-> i], LAMBDA i : gs[i].host = g)

\* db.deleteGuest for a set of row indices.
deleteGuest(gs, idx) ==
  SelectSeq([i \in 1..Len(gs) |-> IF i \in idx THEN [host |-> NoGolfer, position |-> NullPos] ELSE gs[i]],
            LAMBDA r : r.host # NoGolfer)

\* db.deleteGuestsByHost
deleteGuestsByHost(gs, g) == SelectSeq(gs, LAMBDA r : r.host # g)

\* Variant of upsertResponse whose ON CONFLICT clause updates the status
\* only: a row that exists keeps its position.
upsertResponseStatusOnly(resp, g, status, position) ==
  IF g \in DOMAIN resp
  THEN [resp EXCEPT ![g].status = status]
  ELSE (g :> [status |-> status, position |-> position]) @@ resp

\* db.upsertResponse: insert the golfer's row, or update its status and
\* position (ON CONFLICT(event_id, golfer_id) DO UPDATE).
upsertResponse(resp, g, status, position) ==
  (g :> [status |-> status, position |-> position]) @@ resp

\* db.updatePosition
updatePosition(resp, g, position) == [resp EXCEPT ![g].position = position]

\* Variant of getFirstWaitlisted that orders by position DESC.
getLastWaitlisted(resp) ==
  LET W == {g \in InGolfers(resp) : resp[g].position > WAITLIST_FLOOR}
  IN  {g \in W : \A h \in W : resp[g].position >= resp[h].position}

\* db.getFirstWaitlisted: the in-response with the smallest position > 16
\* (ORDER BY position ASC LIMIT 1; guests are not part of the query). SQL
\* leaves the order of equal positions open, so the result is any row of
\* the smallest position; the empty set stands for "no row".
getFirstWaitlisted(resp) ==
  LET W == {g \in InGolfers(resp) : resp[g].position > WAITLIST_FLOOR}
  IN  {g \in W : \A h \in W : resp[g].position <= resp[h].position}

\* Variant of takenPositions that leaves the guests out.
takenPositionsResponsesOnly(resp, gs) ==
  {resp[g].position : g \in {h \in InGolfers(resp) : resp[h].position <= MAX_PLAYERS}}

\* bumpWaitlist, the Set takenPositions: positions <= MAX_PLAYERS held by
\* in-responses and by guests.
takenPositions(resp, gs) ==
  {resp[g].position : g \in {h \in InGolfers(resp) : resp[h].position <= MAX_PLAYERS}}
    \cup {gs[i].position : i \in {j \in 1..Len(gs) : gs[j].position <= MAX_PLAYERS}}

\* bumpWaitlist, the loop
\*   while (takenPositions.has(newPosition) && newPosition <= MAX_PLAYERS) newPosition++
RECURSIVE scanNewPosition(_, _)
scanNewPosition(taken, newPosition) ==
  IF newPosition \in taken /\ newPosition <= MAX_PLAYERS
  THEN scanNewPosition(taken, newPosition + 1)
  ELSE newPosition

\* Variant of bumpWaitlist that sends the notice before it runs
\* updatePosition: at its await the promotion is not stored.
bumpWaitlistNotifyFirst(resp, gs, waitlisted) ==
  IF waitlisted = NoGolfer
  THEN [responses |-> resp, bumped |-> NoGolfer, newPosition |-> NullPos]
  ELSE LET newPosition == scanNewPosition(takenPositions(resp, gs), 1)
       IN  IF newPosition <= MAX_PLAYERS
           THEN [responses |-> resp, bumped |-> waitlisted, newPosition |-> newPosition]
           ELSE [responses |-> resp, bumped |-> NoGolfer, newPosition |-> NullPos]

\* bumpWaitlist(eventId) with `waitlisted` the row getFirstWaitlisted gave
\* (NoGolfer: no row). Result: the tables, the promoted golfer (NoGolfer for
\* the return value null) and the position found by the scan.
bumpWaitlist(resp, gs, waitlisted) ==
  IF waitlisted = NoGolfer
  THEN [responses |-> resp, bumped |-> NoGolfer, newPosition |-> NullPos]
  ELSE LET newPosition == scanNewPosition(takenPositions(resp, gs), 1)
       IN  IF newPosition <= MAX_PLAYERS
           THEN [responses |-> updatePosition(resp, waitlisted, newPosition),
                 bumped |-> waitlisted, newPosition |-> newPosition]
           ELSE [responses |-> resp, bumped |-> NoGolfer, newPosition |-> NullPos]

\* Variant of assignPosition that counts the in-responses only.
assignPositionResponsesOnly(resp, gs) ==
  LET count == getInCountForEvent(resp)
  IN  IF count < MAX_PLAYERS
      THEN count + 1
      ELSE getNextWaitlistPosition(resp)

\* recordResponse, "New response - assign position"
assignPosition(resp, gs) ==
  LET totalConfirmed == getInCountForEvent(resp) + getGuestCountForEvent(gs)
  IN  IF totalConfirmed < MAX_PLAYERS
      THEN totalConfirmed + 1
      ELSE getNextWaitlistPosition(resp)

\* recordResponse, "Calculate guest position": both branches of the code
\* give currentTotal + 1.
guestPosition(resp, gs) ==
  LET currentTotal == getTotalConfirmedCount(resp, gs)
  IN  IF currentTotal < MAX_PLAYERS THEN currentTotal + 1 ELSE currentTotal + 1

\* recordResponse, "Add more guests": guestsToAdd rows, each at the position
\* computed from the tables as they are when it is added.
RECURSIVE addGuests(_, _, _, _)
addGuests(resp, gs, g, guestsToAdd) ==
  IF guestsToAdd = 0 THEN gs
  ELSE addGuests(resp, Append(gs, [host |-> g, position |-> guestPosition(resp, gs)]),
                 g, guestsToAdd - 1)

\* recordResponse, "Remove excess guests (remove from the end)": the last
\* guestsToRemove rows of existingGuests.
removeGuests(gs, existingGuests, guestsToRemove) ==
  deleteGuest(gs, {existingGuests[Len(existingGuests) - i] : i \in 0..(guestsToRemove - 1)})

\* Variant of reconcileGuests that adds guests and never removes one.
reconcileGuestsAddOnly(resp, gs, g, guestCount, existingGuests) ==
  IF guestCount > Len(existingGuests)
  THEN addGuests(resp, gs, g, guestCount - Len(existingGuests))
  ELSE gs

\* recordResponse, "Handle guest changes"
reconcileGuests(resp, gs, g, guestCount, existingGuests) ==
  IF guestCount > Len(existingGuests)
  THEN addGuests(resp, gs, g, guestCount - Len(existingGuests))
  ELSE IF guestCount < Len(existingGuests)
       THEN removeGuests(gs, existingGuests, Len(existingGuests) - guestCount)
       ELSE gs

\* The golfer's row before the call (existingResponse), as the code reads it.
wasInOf(resp, g) == g \in DOMAIN resp /\ resp[g].status = "in"
previousPositionOf(resp, g) == IF g \in DOMAIN resp THEN resp[g].position ELSE NullPos

\* The waitlisted rows in responded_at order: the golfers whose in-response
\* was stored at a position > 16 and who have neither been promoted nor gone
\* out since, oldest first.
Waitlisted(resp) == {g \in InGolfers(resp) : resp[g].position > MAX_PLAYERS}
queueAfter(queue, resp) ==
  LET kept == SelectSeq(queue, LAMBDA g : g \in Waitlisted(resp))
      joined == Waitlisted(resp) \ {queue[i] : i \in 1..Len(queue)}
  IN  IF joined = {} THEN kept ELSE Append(kept, CHOOSE g \in joined : TRUE)

\* Variant of recordIn that assigns a position on every call, also to a
\* golfer who is in already.
recordInReassign(resp, gs, g, guestCount) ==
  LET existingGuests == getGuestsByHost(gs, g)
  IN  IF wasInOf(resp, g) /\ guestCount = 0 /\ Len(existingGuests) = 0
      THEN [responses |-> resp, guests |-> gs, position |-> resp[g].position]
      ELSE LET position == assignPosition(resp, gs)
               resp1 == upsertResponse(resp, g, "in", position)
           IN  [responses |-> resp1,
                guests |-> reconcileGuests(resp1, gs, g, guestCount, existingGuests),
                position |-> position]

\* Variant of recordIn that bumps the waitlist after removing guests.
recordInBumpOnRemoval(resp, gs, g, guestCount) ==
  LET existingGuests == getGuestsByHost(gs, g)
  IN  IF wasInOf(resp, g) /\ guestCount < Len(existingGuests)
      THEN LET gs1 == reconcileGuests(resp, gs, g, guestCount, existingGuests)
               first == getFirstWaitlisted(resp)
               b == bumpWaitlist(resp, gs1, IF first = {} THEN NoGolfer
                                            ELSE CHOOSE w \in first : TRUE)
           IN  [responses |-> b.responses, guests |-> gs1, position |-> resp[g].position]
      ELSE LET position == IF wasInOf(resp, g) THEN resp[g].position
                           ELSE assignPosition(resp, gs)
               resp1 == IF wasInOf(resp, g) THEN resp
                        ELSE upsertResponse(resp, g, "in", position)
           IN  [responses |-> resp1,
                guests |-> reconcileGuests(resp1, gs, g, guestCount, existingGuests),
                position |-> position]

\* recordResponse(golfer, eventId, 'in', guestCount): the tables after the
\* call and the position it returns.
recordIn(resp, gs, g, guestCount) ==
  LET existingGuests == getGuestsByHost(gs, g)
  IN  IF wasInOf(resp, g) /\ guestCount = 0 /\ Len(existingGuests) = 0
      THEN [responses |-> resp, guests |-> gs, position |-> resp[g].position]
      ELSE LET position == IF wasInOf(resp, g) THEN resp[g].position
                           ELSE assignPosition(resp, gs)
               resp1 == IF wasInOf(resp, g) THEN resp
                        ELSE upsertResponse(resp, g, "in", position)
           IN  [responses |-> resp1,
                guests |-> reconcileGuests(resp1, gs, g, guestCount, existingGuests),
                position |-> position]

\* recordResponse, the message of an 'in' call: the text up to the numbers,
\* with the position and the guest count it embeds.
inMessage(resp, gs, g, guestCount) ==
  LET existingGuests == getGuestsByHost(gs, g)
      position == recordIn(resp, gs, g, guestCount).position
  IN  IF wasInOf(resp, g) /\ guestCount = 0 /\ Len(existingGuests) = 0
      THEN IF resp[g].position <= MAX_PLAYERS
           THEN [text |-> "You're already in", position |-> resp[g].position, guests |-> 0]
           ELSE [text |-> "You're already on waitlist", position |-> resp[g].position, guests |-> 0]
      ELSE IF position <= MAX_PLAYERS
           THEN [text |-> "You're in", position |-> position, guests |-> guestCount]
           ELSE [text |-> "Waitlist", position |-> position, guests |-> guestCount]

\* Variant of recordOut that calls bumpWaitlist on every out.
recordOutBumpAlways(resp, gs, g, waitlisted) ==
  LET resp1 == upsertResponse(resp, g, "out", NullPos)
      gs1 == deleteGuestsByHost(gs, g)
      b == bumpWaitlist(resp1, gs1, waitlisted)
  IN  [responses |-> b.responses, guests |-> gs1,
       bumped |-> b.bumped, newPosition |-> b.newPosition]

\* Variant of recordOut that never calls bumpWaitlist.
recordOutNoBump(resp, gs, g, waitlisted) ==
  [responses |-> upsertResponse(resp, g, "out", NullPos),
   guests |-> deleteGuestsByHost(gs, g),
   bumped |-> NoGolfer, newPosition |-> NullPos]

\* recordResponse(golfer, eventId, 'out'): upsert, delete the golfer's
\* guests, and bump the waitlist if the golfer held a position <= 16.
\* `waitlisted` is the row getFirstWaitlisted gives inside bumpWaitlist.
recordOut(resp, gs, g, waitlisted) ==
  LET wasIn == wasInOf(resp, g)
      previousPosition == previousPositionOf(resp, g)
      resp1 == upsertResponse(resp, g, "out", NullPos)
      gs1 == deleteGuestsByHost(gs, g)
  IN  IF wasIn /\ previousPosition # NullPos /\ previousPosition <= MAX_PLAYERS
      THEN LET b == bumpWaitlist(resp1, gs1, waitlisted)
           IN  [responses |-> b.responses, guests |-> gs1,
                bumped |-> b.bumped, newPosition |-> b.newPosition]
      ELSE [responses |-> resp1, guests |-> gs1,
            bumped |-> NoGolfer, newPosition |-> NullPos]

\* The row bumpWaitlist reads with getFirstWaitlisted during an out of g.
firstWaitlistedAfterOut(resp, g) ==
  LET S == getFirstWaitlisted(upsertResponse(resp, g, "out", NullPos))
  IN  IF S = {} THEN {NoGolfer} ELSE S

\* Largest position held in the tables (0 when empty).
MaxHeld(resp, gs) ==
  SetMax({0} \cup {resp[g].position : g \in DOMAIN resp}
             \cup {gs[i].position : i \in 1..Len(gs)})

\* ----------------------------------------------------------------- events
NoEvent == 0           \* getActiveEvent gives no row

\* Variant of getActiveEvent that reads the newest event whatever its
\* status.
getLatestEvent(ev) == IF ev = <<>> THEN NoEvent ELSE Len(ev)

\* db.getActiveEvent: the open event created last (ORDER BY created_at DESC
\* LIMIT 1), NoEvent when none is open.
getActiveEvent(ev) ==
  IF \A i \in 1..Len(ev) : ev[i] # "open" THEN NoEvent
  ELSE SetMax({i \in 1..Len(ev) : ev[i] = "open"})

\* db.closeEvent: UPDATE events SET status = 'closed' WHERE id = ?
closeEvent(ev, id) == [ev EXCEPT ![id] = "closed"]

\* db.createEvent: a new row, status DEFAULT 'open'
createEvent(ev) == Append(ev, "open")

\* Variant of createEventAndNotify that does not close the open event.
createEventNoClose(ev) == createEvent(ev)

\* events.js createEventAndNotify, its statements up to the await: close
\* the active event if there is one, then insert the new event.
createEventAndNotify(ev) ==
  LET existingEvent == getActiveEvent(ev)
  IN  createEvent(IF existingEvent # NoEvent THEN closeEvent(ev, existingEvent) ELSE ev)

\* api.js createEventWithoutNotify: the same statements, no message sent.
createEventWithoutNotify(ev) ==
  LET existingEvent == getActiveEvent(ev)
  IN  createEvent(IF existingEvent # NoEvent THEN closeEvent(ev, existingEvent) ELSE ev)

\* ---------------------------------------------------------------- summary
\* Names compare as the golfers' numbers do, and the guest name
\* "<host>'s Guest" that recordResponse writes sorts right after its host.
nameKey(e) == 2 * e.golfer + (IF e.guest THEN 1 ELSE 0)

\* The rows of a set in ascending position (equal positions by golfer and
\* guest flag).
RECURSIVE byPosition(_)
byPosition(S) ==
  IF S = {} THEN <<>>
  ELSE LET e == CHOOSE x \in S : \A y \in S :
                  \/ x.position < y.position
                  \/ x.position = y.position /\ nameKey(x) <= nameKey(y)
       IN  <<e>> \o byPosition(S \ {e})

\* Names only: .map(r => r.name)
names(rows) == [i \in 1..Len(rows) |-> [golfer |-> rows[i].golfer, guest |-> rows[i].guest]]

responseRows(resp, S) == {[golfer |-> g, guest |-> FALSE, position |-> resp[g].position] : g \in S}
guestRows(gs, I) ==
  {[golfer |-> gs[i].host, guest |-> TRUE, position |-> gs[i].position, row |-> i] : i \in I}

\* generateSummary(eventId): the lists the text is built from. confirmed is
\* [...confirmedGolfers, ...confirmedGuests].sort(), waitlist is the
\* waitlisted golfers followed by the waitlisted guests; out and noResponse
\* are kept as sets (their order is that of the rows read).
generateSummary(resp, gs, allGolfers) ==
  LET confirmedGolfers ==
        names(byPosition(responseRows(resp,
          {g \in DOMAIN resp : resp[g].status = "in" /\ resp[g].position <= MAX_PLAYERS})))
      confirmedGuests ==
        names(byPosition(guestRows(gs, {i \in 1..Len(gs) : gs[i].position <= MAX_PLAYERS})))
      waitlistGolfers ==
        names(byPosition(responseRows(resp,
          {g \in DOMAIN resp : resp[g].status = "in" /\ resp[g].position > MAX_PLAYERS})))
      waitlistGuests ==
        names(byPosition(guestRows(gs, {i \in 1..Len(gs) : gs[i].position > MAX_PLAYERS})))
  IN  [kind |-> "summary",
       confirmed |-> SortSeq(confirmedGolfers \o confirmedGuests,
                             LAMBDA a, b : nameKey(a) < nameKey(b)),
       waitlist |-> waitlistGolfers \o waitlistGuests,
       out |-> {g \in DOMAIN resp : resp[g].status = "out"},
       noResponse |-> allGolfers \ DOMAIN resp]

\* Array.prototype.sort((a, b) => a.position - b.position) is stable: rows
\* of equal position keep the order they had. insertByPosition puts e behind
\* every row whose position is not larger.
insertByPosition(rows, e) ==
  LET before == SelectSeq(rows, LAMBDA r : r.position <= e.position)
      after == SelectSeq(rows, LAMBDA r : r.position > e.position)
  IN  before \o <<e>> \o after

RECURSIVE sortByPosition(_)
sortByPosition(rows) ==
  IF rows = <<>> THEN <<>>
  ELSE insertByPosition(sortByPosition(SubSeq(rows, 1, Len(rows) - 1)), rows[Len(rows)])

\* Variant of getEventStatusData whose waitlist starts at position
\* MAX_PLAYERS instead of behind it.
getEventStatusDataOverlap(resp, gs, allGolfers) ==
  LET confirmedGolfers ==
        byPosition(responseRows(resp,
          {g \in DOMAIN resp : resp[g].status = "in" /\ resp[g].position <= MAX_PLAYERS}))
      confirmedGuests ==
        byPosition(guestRows(gs, {i \in 1..Len(gs) : gs[i].position <= MAX_PLAYERS}))
      waitlistGolfers ==
        byPosition(responseRows(resp,
          {g \in DOMAIN resp : resp[g].status = "in" /\ resp[g].position >= MAX_PLAYERS}))
      waitlistGuests ==
        byPosition(guestRows(gs, {i \in 1..Len(gs) : gs[i].position >= MAX_PLAYERS}))
  IN  [kind |-> "status",
       confirmed |-> sortByPosition(confirmedGolfers \o confirmedGuests),
       waitlist |-> sortByPosition(waitlistGolfers \o waitlistGuests),
       out |-> responseRows(resp, {g \in DOMAIN resp : resp[g].status = "out"}),
       noResponse |-> allGolfers \ DOMAIN resp]

\* api.js getEventStatusData(event): the rows of each list with their
\* positions. confirmed and waitlist are the golfers' rows followed by the
\* guests' rows, sorted by position; out is kept as the set of its rows and
\* noResponse as a set of golfers.
getEventStatusData(resp, gs, allGolfers) ==
  LET confirmedGolfers ==
        byPosition(responseRows(resp,
          {g \in DOMAIN resp : resp[g].status = "in" /\ resp[g].position <= MAX_PLAYERS}))
      confirmedGuests ==
        byPosition(guestRows(gs, {i \in 1..Len(gs) : gs[i].position <= MAX_PLAYERS}))
      waitlistGolfers ==
        byPosition(responseRows(resp,
          {g \in DOMAIN resp : resp[g].status = "in" /\ resp[g].position > MAX_PLAYERS}))
      waitlistGuests ==
        byPosition(guestRows(gs, {i \in 1..Len(gs) : gs[i].position > MAX_PLAYERS}))
  IN  [kind |-> "status",
       confirmed |-> sortByPosition(confirmedGolfers \o confirmedGuests),
       waitlist |-> sortByPosition(waitlistGolfers \o waitlistGuests),
       out |-> responseRows(resp, {g \in DOMAIN resp : resp[g].status = "out"}),
       noResponse |-> allGolfers \ DOMAIN resp]

\* ---------------------------------------------------------------- golfers
\* A phone number as the table stores it: '+' country local, the local part
\* being ten digits that are numbered here. NoPhone is the null of
\* normalizePhone and of a text the ADD pattern does not match.
Phone(local) == [country |-> "1", local |-> local]
NoPhone == [country |-> "", local |-> 0]

\* A phone number as typed: ten digits (lead ""), eleven digits starting with
\* 1 (lead "1") or with 2 (lead "2"), or seven digits (lead "short").
RawPhone(lead, local) == [lead |-> lead, local |-> local]

\* api.js normalizePhone(input): '+1' and the ten digits, '+' and the eleven
\* digits when they start with 1, null otherwise.
normalizePhone(input) ==
  IF input.lead = "" THEN [country |-> "1", local |-> input.local]
  ELSE IF input.lead = "1" THEN [country |-> "1", local |-> input.local]
  ELSE NoPhone

\* handleManagerMessage, command 'add': the phone of /^add\s+(.+?)\s+
\* (\+?1?\d{10,11})$/i with '1' put before ten digits and '+' before all.
addCommandPhone(input) ==
  IF input.lead = "" THEN [country |-> "1", local |-> input.local]
  ELSE IF input.lead \in {"1", "2"} THEN [country |-> input.lead, local |-> input.local]
  ELSE NoPhone

\* db.getGolferByPhone: the id of the row with the phone (phone is UNIQUE),
\* NoGolfer for no row.
getGolferByPhone(gf, phone) ==
  IF \E i \in 1..Len(gf) : gf[i].phone = phone
  THEN CHOOSE i \in 1..Len(gf) : gf[i].phone = phone
  ELSE NoGolfer

\* db.addGolfer: INSERT OR IGNORE INTO golfers (name, phone); the row is
\* ignored when its phone breaks UNIQUE.
addGolfer(gf, name, phone) ==
  IF getGolferByPhone(gf, phone) # NoGolfer THEN gf
  ELSE Append(gf, [name |-> name, phone |-> phone, active |-> TRUE])

\* db.updateGolferPhone: UPDATE golfers SET phone = ? WHERE id = ?
updateGolferPhone(gf, phone, id) ==
  [i \in 1..Len(gf) |-> IF i = id THEN [gf[i] EXCEPT !.phone = phone] ELSE gf[i]]

\* db.updateGolferName: UPDATE golfers SET name = ? WHERE phone = ?
updateGolferName(gf, name, phone) ==
  [i \in 1..Len(gf) |-> IF gf[i].phone = phone THEN [gf[i] EXCEPT !.name = name] ELSE gf[i]]

\* db.deactivateGolfer: UPDATE golfers SET active = 0 WHERE id = ?
deactivateGolfer(gf, id) ==
  [i \in 1..Len(gf) |-> IF i = id THEN [gf[i] EXCEPT !.active = FALSE] ELSE gf[i]]

\* db.getAllActiveGolfers: the ids of the rows with active = 1, in rowid order.
getAllActiveGolfers(gf) == SelectSeq([i \in 1..Len(gf) |-> i], LAMBDA i : gf[i].active)

\* golfers.map(g => g.phone)
phonesOf(gf) ==
  LET ids == getAllActiveGolfers(gf) IN [k \in 1..Len(ids) |-> gf[ids[k]].phone]

\* The table after the seed script has added golfers 1..n, golfer g under
\* the name and the phone numbered g.
Registered(n) == [g \in 1..n |-> [name |-> g, phone |-> Phone(g), active |-> TRUE]]

\* ------------------------------------------------------------------- sms
\* sendSMS(to, body), settled: the promise is fulfilled when the provider
\* accepted the message and rejected otherwise.
sendSMS(to, accepted) ==
  [status |-> IF accepted THEN "fulfilled" ELSE "rejected", to |-> to]

\* Variant of sendToMany built on Promise.all: it rejects when a send is
\* rejected and counts nothing.
sendToManyAll(phoneNumbers, delivery) ==
  LET results == [i \in 1..Len(phoneNumbers) |-> sendSMS(phoneNumbers[i], delivery[phoneNumbers[i]])]
      failed == Cardinality({i \in 1..Len(results) : results[i].status = "rejected"})
  IN  IF failed > 0
      THEN [outcome |-> "rejected", succeeded |-> 0, failed |-> 0, results |-> <<>>]
      ELSE [outcome |-> "fulfilled", succeeded |-> Len(results), failed |-> 0,
            results |-> results]

\* sendToMany(phoneNumbers, body): sendSMS is called for every phone before
\* anything is awaited, Promise.allSettled waits for all of them and is
\* always fulfilled. delivery tells for each phone whether the provider
\* accepts the message.
sendToMany(phoneNumbers, delivery) ==
  LET results == [i \in 1..Len(phoneNumbers) |-> sendSMS(phoneNumbers[i], delivery[phoneNumbers[i]])]
  IN  [outcome |-> "fulfilled",
       succeeded |-> Cardinality({i \in 1..Len(results) : results[i].status = "fulfilled"}),
       failed |-> Cardinality({i \in 1..Len(results) : results[i].status = "rejected"}),
       results |-> results]

\* The handler did not call sendToMany.
NoSend == [outcome |-> "none", succeeded |-> 0, failed |-> 0, results |-> <<>>]

\* What the provider may do with a message for each of the phones.
Deliveries(phoneNumbers) ==
  [{phoneNumbers[i] : i \in 1..Len(phoneNumbers)} -> BOOLEAN]

\* createEventAndNotify from getAllActiveGolfers on: sendToMany when there
\* is a phone to send to.
notifyGolfers(gf, delivery) ==
  IF Len(phonesOf(gf)) > 0 THEN sendToMany(phonesOf(gf), delivery) ELSE NoSend

\* The handler changes no golfer and calls no sendToMany.
quiet == golfers' = golfers /\ sent' = NoSend /\ archive' = archive

\* ------------------------------------------------------------------ state
NoCall == [golfer |-> NoGolfer, status |-> "none", guestCount |-> 0,
           wasIn |-> FALSE, previousPosition |-> NullPos, position |-> NullPos,
           bumped |-> NoGolfer, newPosition |-> NullPos]

\* No text message received yet / nothing returned yet.
NoInbound == [from |-> NoGolfer, body |-> <<>>, weekend |-> FALSE]
NoReply == [kind |-> "none"]

\* The engine's starting point: one open event without rows.
Init ==
  /\ responses = <<>>
  /\ guests = <<>>
  /\ last = NoCall
  /\ waitQueue = <<>>
  /\ events = <<"open">>
  /\ inbound = NoInbound
  /\ reply = NoReply
  /\ pending = {}
  /\ serial = [responses |-> <<>>, guests |-> <<>>]
  /\ golfers = Registered(NumSeqGolfers)
  /\ sent = NoSend
  /\ archive = Untracked

\* A reply IN (with guestCount guests) of golfer g.
RecordIn(g, guestCount) ==
  LET r == recordIn(responses, guests, g, guestCount)
  IN  /\ MaxHeld(r.responses, r.guests) <= MaxPosition
      /\ responses' = r.responses
      /\ guests' = r.guests
      /\ last' = [golfer |-> g, status |-> "in", guestCount |-> guestCount,
                  wasIn |-> wasInOf(responses, g),
                  previousPosition |-> NullPos,
                  position |-> r.position,
                  bumped |-> NoGolfer, newPosition |-> NullPos]
      /\ waitQueue' = queueAfter(waitQueue, r.responses)
      /\ UNCHANGED <<smsVars, callVars>>
      /\ quiet

\* A reply OUT of golfer g.
RecordOut(g) ==
  \E waitlisted \in firstWaitlistedAfterOut(responses, g) :
    LET r == recordOut(responses, guests, g, waitlisted)
    IN  /\ responses' = r.responses
        /\ guests' = r.guests
        /\ last' = [golfer |-> g, status |-> "out", guestCount |-> 0,
                    wasIn |-> wasInOf(responses, g),
                    previousPosition |-> previousPositionOf(responses, g),
                    position |-> NullPos,
                    bumped |-> r.bumped, newPosition |-> r.newPosition]
        /\ waitQueue' = queueAfter(waitQueue, r.responses)
        /\ UNCHANGED <<smsVars, callVars>>
        /\ quiet

Next ==
  \/ \E g \in Golfers, guestCount \in GuestCounts : RecordIn(g, guestCount)
  \/ \E g \in Golfers : RecordOut(g)

Spec == Init /\ [][Next]_vars

\* Replies whose guest count goes up and down: golfers of 1..NumPartyGolfers
\* reply in with 0..MaxParty guests, and out, in every order.
PartyGolfers == 1..NumPartyGolfers
PartyCounts == 0..MaxParty
NextParty ==
  \/ \E g \in PartyGolfers, guestCount \in PartyCounts : RecordIn(g, guestCount)
  \/ \E g \in PartyGolfers : RecordOut(g)

SpecParty == Init /\ [][NextParty]_vars

\* The in-only scenario: golfers of 1..NumSeqGolfers reply IN without guests,
\* each once; the next to reply is one of the two lowest-numbered golfers
\* that have not replied (the engine never reads a golfer's number, so the
\* order of the numbers loses no case).
SeqGolfers == 1..NumSeqGolfers
NextRepliers ==
  LET waiting == SeqGolfers \ DOMAIN responses
      first == {g \in waiting : \A h \in waiting : g <= h}
      rest == waiting \ first
  IN  first \cup {g \in rest : \A h \in rest : g <= h}

NextIns == \E g \in NextRepliers : RecordIn(g, 0)

SpecIns == Init /\ [][NextIns]_vars

\* -------------------------------------------------------------- dashboard
\* api.js bumpWaitlistSilent: as bumpWaitlist, with takenPositions built
\* from the responses alone.
bumpWaitlistSilent(resp, waitlisted) ==
  IF waitlisted = NoGolfer
  THEN [responses |-> resp, bumped |-> NoGolfer, newPosition |-> NullPos]
  ELSE LET taken == {resp[g].position :
                       g \in {h \in InGolfers(resp) : resp[h].position <= MAX_PLAYERS}}
           newPosition == scanNewPosition(taken, 1)
       IN  IF newPosition <= MAX_PLAYERS
           THEN [responses |-> updatePosition(resp, waitlisted, newPosition),
                 bumped |-> waitlisted, newPosition |-> newPosition]
           ELSE [responses |-> resp, bumped |-> NoGolfer, newPosition |-> NullPos]

\* api.js recordResponseSilent(golfer, eventId, 'in'): the position comes
\* from the count of in-responses; guests are neither read nor written.
recordInSilent(resp, g) ==
  IF wasInOf(resp, g)
  THEN [responses |-> resp, position |-> resp[g].position]
  ELSE LET count == getInCountForEvent(resp)
           position == IF count < MAX_PLAYERS THEN count + 1
                       ELSE getNextWaitlistPosition(resp)
       IN  [responses |-> upsertResponse(resp, g, "in", position), position |-> position]

\* api.js recordResponseSilent(golfer, eventId, 'out'): upsert and, for a
\* golfer who held a position <= 16, bumpWaitlistSilent; the guests stay.
recordOutSilent(resp, g, waitlisted) ==
  LET wasIn == wasInOf(resp, g)
      previousPosition == previousPositionOf(resp, g)
      resp1 == upsertResponse(resp, g, "out", NullPos)
  IN  IF wasIn /\ previousPosition # NullPos /\ previousPosition <= MAX_PLAYERS
      THEN bumpWaitlistSilent(resp1, waitlisted)
      ELSE [responses |-> resp1, bumped |-> NoGolfer, newPosition |-> NullPos]

\* POST /event/simulate-response with status 'in'
SimulateIn(g) ==
  LET r == recordInSilent(responses, g)
  IN  /\ getActiveEvent(events) # NoEvent
      /\ MaxHeld(r.responses, guests) <= MaxPosition
      /\ responses' = r.responses
      /\ last' = [golfer |-> g, status |-> "silent in", guestCount |-> 0,
                  wasIn |-> wasInOf(responses, g),
                  previousPosition |-> NullPos, position |-> r.position,
                  bumped |-> NoGolfer, newPosition |-> NullPos]
      /\ waitQueue' = queueAfter(waitQueue, r.responses)
      /\ UNCHANGED <<guests, smsVars, callVars>>
      /\ quiet

\* POST /event/simulate-response with status 'out'
SimulateOut(g) ==
  \E waitlisted \in firstWaitlistedAfterOut(responses, g) :
    LET r == recordOutSilent(responses, g, waitlisted)
    IN  /\ getActiveEvent(events) # NoEvent
        /\ responses' = r.responses
        /\ last' = [golfer |-> g, status |-> "silent out", guestCount |-> 0,
                    wasIn |-> wasInOf(responses, g),
                    previousPosition |-> previousPositionOf(responses, g),
                    position |-> NullPos,
                    bumped |-> r.bumped, newPosition |-> r.newPosition]
        /\ waitQueue' = queueAfter(waitQueue, r.responses)
        /\ UNCHANGED <<guests, smsVars, callVars>>
        /\ quiet

\* POST /event/clear-responses: DELETE FROM responses WHERE event_id = ?
ClearResponses ==
  /\ getActiveEvent(events) # NoEvent
  /\ responses' = <<>>
  /\ last' = [NoCall EXCEPT !.status = "clear"]
  /\ waitQueue' = <<>>
  /\ UNCHANGED <<guests, smsVars, callVars>>
  /\ quiet

\* DELETE /guests/:id for the id of guest row i.
DeleteGuest(i) ==
  /\ guests' = deleteGuest(guests, {i})
  /\ last' = [NoCall EXCEPT !.status = "delete guest", !.golfer = guests[i].host,
                            !.position = guests[i].position]
  /\ UNCHANGED <<responses, waitQueue, smsVars, callVars>>
  /\ quiet

\* The engine called for the golfers' replies, and the dashboard's roster
\* actions on the same event. The manager deletes the oldest or the newest
\* guest row, and only from a party as a reply brought it: BigParty rows at
\* consecutive positions.
DashGolfers == 1..NumDashGolfers
DeletableRows ==
  {i \in 1..Len(guests) :
     /\ Len(guests) = BigParty
     /\ \A j \in 1..Len(guests) : guests[j].position = guests[1].position + j - 1
     /\ (i = 1 \/ i = Len(guests))}

NextDash ==
  \/ \E g \in DashGolfers, guestCount \in GuestCounts : RecordIn(g, guestCount)
  \/ \E g \in DashGolfers : RecordOut(g)
  \/ \E g \in DashGolfers : SimulateIn(g)
  \/ \E g \in DashGolfers : SimulateOut(g)
  \/ ClearResponses
  \/ \E i \in DeletableRows : DeleteGuest(i)

SpecDash == Init /\ [][NextDash]_vars

\* ----------------------------------------------------------------- parser
\* A text is the sequence of its lexemes after toLowerCase().trim(); the
\* white space between lexemes is not kept (the reply grammar allows any
\* amount of it between its parts).
Affirmative ==
  {<<"in">>, <<"i'm", "in">>, <<"im", "in">>, <<"yes">>, <<"y">>,
   <<"count", "me", "in">>, <<"i", "am", "in">>}
Negative ==
  {<<"out">>, <<"i'm", "out">>, <<"im", "out">>, <<"no">>, <<"n">>,
   <<"count", "me", "out">>, <<"i", "am", "out">>,
   <<"can't", "make", "it">>, <<"cant", "make", "it">>}
\* [\+plus]* : runs of the characters + p l u s
PlusWords == {"+", "plus", "up"}
\* (\d+|a|one|two|three), with parseInt of the digit strings
NumberWords == {"0", "1", "2", "3", "12", "a", "one", "two", "three"}
parseInt(w) == IF w = "0" THEN 0 ELSE IF w = "1" THEN 1 ELSE IF w = "2" THEN 2
               ELSE IF w = "3" THEN 3 ELSE 12
GuestWords == {"guest", "guests"}
NoParse == [status |-> "null", guests |-> 0]

Optional(S) == {<<>>} \cup {<<w>> : w \in S}

\* What may follow the affirmative words:
\*   \s*[\+plus]*\s*(\d+|a|one|two|three)?\s*(guest|guests)?$
GuestSuffixes ==
  {m.plus \o m.num \o m.guest :
     m \in [plus : Optional(PlusWords), num : Optional(NumberWords),
            guest : Optional(GuestWords)]}

\* Variant of parseGolferResponse whose patterns lack the final $: a text
\* that begins with affirmative or negative words is accepted.
parseGolferResponseUnanchored(text) ==
  IF \E aff \in Affirmative : Len(aff) <= Len(text) /\ SubSeq(text, 1, Len(aff)) = aff
  THEN [status |-> "in", guests |-> 0]
  ELSE IF \E neg \in Negative : Len(neg) <= Len(text) /\ SubSeq(text, 1, Len(neg)) = neg
       THEN [status |-> "out", guests |-> 0]
       ELSE NoParse

\* parser.js parseGolferResponse(text): { status, guests } or null
parseGolferResponse(text) ==
  LET matches ==
        {aff \in Affirmative :
           /\ Len(aff) <= Len(text)
           /\ SubSeq(text, 1, Len(aff)) = aff
           /\ SubSeq(text, Len(aff) + 1, Len(text)) \in GuestSuffixes}
  IN  IF matches # {}
      THEN LET aff == CHOOSE x \in matches : TRUE
               rest == SubSeq(text, Len(aff) + 1, Len(text))
               guestPart == SelectSeq(rest, LAMBDA w : w \in NumberWords)
               guestWord == SelectSeq(rest, LAMBDA w : w \in GuestWords)
           IN  [status |-> "in",
                guests |->
                  IF guestPart # <<>>
                  THEN IF guestPart[1] \in {"a", "one", "1"} THEN 1
                       ELSE IF guestPart[1] \in {"two", "2"} THEN 2
                       ELSE IF guestPart[1] \in {"three", "3"} THEN 3
                       ELSE IF parseInt(guestPart[1]) # 0 THEN parseInt(guestPart[1])
                       ELSE 1
                  ELSE IF guestWord # <<>> THEN 1 ELSE 0]
      ELSE IF text \in Negative
           THEN [status |-> "out", guests |-> 0]
           ELSE NoParse

\* --------------------------------------------------------- recordResponse
\* A string argument; the parser's object is passed as the record it is.
Str(x) == [string |-> x]

\* recordResponse(golfer, eventId, status, guestCount): the branch is taken
\* by status === 'in' / status === 'out'; any other value gives
\* { success: false, message: 'Invalid status' } and writes nothing.
recordResponse(resp, gs, g, status, guestCount, waitlisted) ==
  IF status = Str("in")
  THEN LET r == recordIn(resp, gs, g, guestCount)
       IN  [branch |-> "in", responses |-> r.responses, guests |-> r.guests,
            position |-> r.position, bumped |-> NoGolfer, newPosition |-> NullPos,
            message |-> inMessage(resp, gs, g, guestCount).text]
  ELSE IF status = Str("out")
       THEN LET r == recordOut(resp, gs, g, waitlisted)
            IN  [branch |-> "out", responses |-> r.responses, guests |-> r.guests,
                 position |-> NullPos, bumped |-> r.bumped, newPosition |-> r.newPosition,
                 message |-> "Got it, you're out."]
       ELSE [branch |-> "invalid", responses |-> resp, guests |-> gs,
             position |-> NullPos, bumped |-> NoGolfer, newPosition |-> NullPos,
             message |-> "Invalid status"]

\* The history record of a recordResponse call with result r.
callRecord(resp, g, guestCount, r) ==
  [golfer |-> g, status |-> r.branch, guestCount |-> guestCount,
   wasIn |-> wasInOf(resp, g),
   previousPosition |-> IF r.branch = "out" THEN previousPositionOf(resp, g) ELSE NullPos,
   position |-> r.position, bumped |-> r.bumped, newPosition |-> r.newPosition]

\* A request as the handlers see it (weekend matters to golfers' texts only).
request(from, body) == [from |-> from, body |-> body, weekend |-> FALSE]

\* The sender the webhook takes for the manager (from === MANAGER_PHONE).
ManagerPhone == -1

\* Variant of ManagerStatus that closes the event it reports on, as the
\* command 'closed' does.
ManagerStatusCloses(active) ==
  LET event == getActiveEvent(events)
  IN  /\ inbound' = request(ManagerPhone, <<"status">>)
      /\ IF event # NoEvent
         THEN /\ reply' = generateSummary(responses, guests, active)
              /\ events' = [events EXCEPT ![event] = "closed"]
         ELSE /\ reply' = [kind |-> "No active event."]
              /\ events' = events
      /\ UNCHANGED <<rosterVars, callVars>>
      /\ quiet

\* handleManagerMessage, command 'status': the summary of the open event,
\* or 'No active event.'; active is the result of getAllActiveGolfers.
ManagerStatus(active) ==
  /\ inbound' = request(ManagerPhone, <<"status">>)
  /\ reply' = IF getActiveEvent(events) # NoEvent
              THEN generateSummary(responses, guests, active)
              ELSE [kind |-> "No active event."]
  /\ UNCHANGED <<rosterVars, events, callVars>>
  /\ quiet

\* ------------------------------------------------- webhook and dashboard
\* Who sent the request being handled, when it is not a golfer.
Dashboard == -2
Scheduler == -3

\* GET /event/status: { event: null } without open event, else the result
\* of getEventStatusData.
DashboardStatus(active) ==
  /\ inbound' = request(Dashboard, <<"event/status">>)
  /\ reply' = IF getActiveEvent(events) # NoEvent
              THEN getEventStatusData(responses, guests, active)
              ELSE [kind |-> "event: null"]
  /\ UNCHANGED <<rosterVars, events, callVars>>
  /\ quiet

SmsGolfers == 1..NumSmsGolfers
Stranger == NumSmsGolfers + 1    \* a phone getGolferByPhone does not find
Texts ==
  {<<"in">>, <<"in", "+", "2">>, <<"yes", "a", "guest">>, <<"out">>,
   <<"banana">>, <<"in", "banana">>}

\* The rows of the event that was the newest, as they stay in the tables
\* when db.createEvent inserts the next event: no statement of the creation
\* writes to responses or guests.
archiveRoster(arch, ev, resp, gs) ==
  IF ~arch.tracked \/ Len(ev) = 0 THEN arch
  ELSE [arch EXCEPT !.rows = Append(@, [responses |-> resp, guests |-> gs])]

\* Variant of newRoster in which the new event finds the rows of the event
\* before it under its own id.
newRosterKeepsRows ==
  /\ archive' = archiveRoster(archive, events, responses, guests)
  /\ UNCHANGED <<responses, guests>>
  /\ last' = NoCall
  /\ waitQueue' = <<>>

\* The tables after db.createEvent: the id is new (AUTOINCREMENT), so no row
\* of responses or guests carries it; the rows of the earlier events stay.
newRoster ==
  /\ archive' = archiveRoster(archive, events, responses, guests)
  /\ responses' = <<>>
  /\ guests' = <<>>
  /\ last' = NoCall
  /\ waitQueue' = <<>>

\* handleManagerMessage with a text parseManagerAnnouncement accepts:
\* createEventAndNotify, then 'Event created for ...'. The result of
\* sendToMany is not part of what the handler returns.
ManagerAnnounce(delivery) ==
  /\ Len(events) < MaxEvents
  /\ events' = createEventAndNotify(events)
  /\ newRoster
  /\ sent' = notifyGolfers(golfers, delivery)
  /\ inbound' = request(ManagerPhone, <<"golf">>)
  /\ reply' = [kind |-> "Event created", eventId |-> Len(events'),
               existing |-> getActiveEvent(events)]
  /\ UNCHANGED <<callVars, golfers>>

\* POST /event/create, with or without testMode.
DashboardCreate(testMode, delivery) ==
  /\ Len(events) < MaxEvents
  /\ events' = IF testMode THEN createEventWithoutNotify(events)
               ELSE createEventAndNotify(events)
  /\ newRoster
  /\ sent' = IF testMode THEN NoSend ELSE notifyGolfers(golfers, delivery)
  /\ inbound' = request(Dashboard, <<"event/create">>)
  /\ reply' = [kind |-> "Event created", eventId |-> Len(events'),
               existing |-> getActiveEvent(events)]
  /\ UNCHANGED <<callVars, golfers>>

\* handleManagerMessage, command 'closed': the summary, and closeEvent.
ManagerClosed(active) ==
  LET event == getActiveEvent(events)
  IN  /\ inbound' = request(ManagerPhone, <<"closed">>)
      /\ IF event # NoEvent
         THEN /\ reply' = generateSummary(responses, guests, active)
              /\ events' = closeEvent(events, event)
         ELSE /\ reply' = [kind |-> "No active event to close."]
              /\ events' = events
      /\ UNCHANGED <<rosterVars, callVars>>
      /\ quiet

\* POST /event/close
DashboardClose ==
  LET event == getActiveEvent(events)
  IN  /\ inbound' = request(Dashboard, <<"event/close">>)
      /\ IF event # NoEvent
         THEN /\ reply' = [kind |-> "success"]
              /\ events' = closeEvent(events, event)
         ELSE /\ reply' = [kind |-> "No active event to close"]
              /\ events' = events
      /\ UNCHANGED <<rosterVars, callVars>>
      /\ quiet

\* sendFridaySummary up to its await: the summary of the active event goes
\* to the manager; the call keeps `event` across the await.
FridayStart(active) ==
  LET event == getActiveEvent(events)
  IN  /\ event # NoEvent
      /\ inbound' = request(Scheduler, <<"friday">>)
      /\ reply' = generateSummary(responses, guests, active)
      /\ pending' = pending \cup {[call |-> "sendFridaySummary", event |-> event]}
      /\ UNCHANGED <<rosterVars, events, serial>>
      /\ quiet

\* sendFridaySummary after the await: closeEvent(event.id) when sendSMS was
\* fulfilled, nothing when it was rejected.
FridayResume(c, delivered) ==
  /\ c.call = "sendFridaySummary"
  /\ events' = IF delivered THEN closeEvent(events, c.event) ELSE events
  /\ pending' = pending \ {c}
  /\ inbound' = request(Scheduler, <<"friday">>)
  /\ UNCHANGED <<rosterVars, reply, serial>>
  /\ quiet

\* POST /event/respond with status 'in' or 'out' for a registered phone.
DashboardRespond(g, status) ==
  LET event == getActiveEvent(events)
  IN  \E waitlisted \in firstWaitlistedAfterOut(responses, g) :
        LET r == recordResponse(responses, guests, g, Str(status), 0, waitlisted)
        IN  /\ inbound' = request(Dashboard, <<"event/respond", status>>)
            /\ IF event = NoEvent
               THEN /\ reply' = [kind |-> "No active event"]
                    /\ UNCHANGED rosterVars
               ELSE /\ reply' = [kind |-> r.message]
                    /\ responses' = r.responses
                    /\ guests' = r.guests
                    /\ last' = callRecord(responses, g, 0, r)
                    /\ waitQueue' = queueAfter(waitQueue, r.responses)
            /\ UNCHANGED <<events, callVars>>
            /\ quiet

\* events.js forwardToManager(golfer, message): what it hands to sendSMS,
\* `From ${golfer.name}: ${message}` for the manager's phone. The replies of
\* the handlers below are those given when the provider accepts it.
forwardToManager(gf, g, message) ==
  [to |-> ManagerPhone, name |-> gf[g].name, message |-> message]

\* handleGolferMessage(from, body) on a day that is (weekend) or is not a
\* Saturday or Sunday. The parser's result is handed to recordResponse as
\* its third argument; no fourth argument is given, so guestCount is 0.
GolferSms(from, body, weekend) ==
  LET event == getActiveEvent(events)
      response == parseGolferResponse(body)
  IN  \E waitlisted \in firstWaitlistedAfterOut(responses, from) :
        LET r == recordResponse(responses, guests, from, response, 0, waitlisted)
        IN  /\ inbound' = [from |-> from, body |-> body, weekend |-> weekend]
            /\ IF from \notin SmsGolfers
               THEN /\ reply' = [kind |-> "Your number is not registered."]
                    /\ UNCHANGED rosterVars
               ELSE IF event = NoEvent
               THEN /\ reply' = [kind |-> "No active event. Forwarded.",
                                 forwarded |-> forwardToManager(golfers, from, body)]
                    /\ UNCHANGED rosterVars
               ELSE IF weekend
               THEN /\ reply' = [kind |-> "Response window closed. Forwarded.",
                                 forwarded |-> forwardToManager(golfers, from, body)]
                    /\ UNCHANGED rosterVars
               ELSE IF response = NoParse
               THEN /\ reply' = [kind |-> "Reply IN or OUT"]
                    /\ UNCHANGED rosterVars
               ELSE /\ reply' = [kind |-> r.message]
                    /\ responses' = r.responses
                    /\ guests' = r.guests
                    /\ last' = callRecord(responses, from, 0, r)
                    /\ waitQueue' = queueAfter(waitQueue, r.responses)
            /\ UNCHANGED <<events, callVars>>
            /\ quiet

\* After construction: no event, no rows.
InitSms ==
  /\ responses = <<>>
  /\ guests = <<>>
  /\ last = NoCall
  /\ waitQueue = <<>>
  /\ events = <<>>
  /\ inbound = NoInbound
  /\ reply = NoReply
  /\ pending = {}
  /\ serial = [responses |-> <<>>, guests |-> <<>>]
  /\ golfers = Registered(NumSmsGolfers)
  /\ sent = NoSend
  /\ archive = Untracked

NextSms ==
  \/ \E delivery \in Deliveries(phonesOf(golfers)) : ManagerAnnounce(delivery)
  \/ \E testMode \in BOOLEAN, delivery \in Deliveries(phonesOf(golfers)) :
        DashboardCreate(testMode, delivery)
  \/ ManagerClosed(SmsGolfers)
  \/ DashboardClose
  \/ FridayStart(SmsGolfers)
  \/ \E c \in pending, delivered \in BOOLEAN : FridayResume(c, delivered)
  \/ ManagerStatus(SmsGolfers)
  \/ \E g \in SmsGolfers, status \in {"in", "out"} : DashboardRespond(g, status)
  \/ \E from \in SmsGolfers \cup {Stranger}, body \in Texts, weekend \in BOOLEAN :
        GolferSms(from, body, weekend)

SpecSms == InitSms /\ [][NextSms]_vars

\* Events that follow one another, each with its own rows: the events are
\* created and closed as in SpecSms, and while one is open recordResponse is
\* called for it, from the dashboard and with a guest.
EventCounts == {0, 1}
EventRepliers == 1..NumEventRepliers
InitEvents ==
  /\ responses = <<>>
  /\ guests = <<>>
  /\ last = NoCall
  /\ waitQueue = <<>>
  /\ events = <<>>
  /\ inbound = NoInbound
  /\ reply = NoReply
  /\ pending = {}
  /\ serial = [responses |-> <<>>, guests |-> <<>>]
  /\ golfers = Registered(NumSmsGolfers)
  /\ sent = NoSend
  /\ archive = NoArchive

NextEvents ==
  \/ \E delivery \in Deliveries(phonesOf(golfers)) : ManagerAnnounce(delivery)
  \/ \E testMode \in BOOLEAN, delivery \in Deliveries(phonesOf(golfers)) :
        DashboardCreate(testMode, delivery)
  \/ ManagerClosed(SmsGolfers)
  \/ DashboardClose
  \/ \E g \in EventRepliers, status \in {"in", "out"} : DashboardRespond(g, status)
  \/ /\ getActiveEvent(events) # NoEvent
     /\ \E g \in EventRepliers, guestCount \in EventCounts : RecordIn(g, guestCount)

SpecEvents == InitEvents /\ [][NextEvents]_vars

\* ------------------------------------------------------- golfer records
\* What the manager types: a name and a phone number.
Names == 1..NumNames
RawPhones == {RawPhone(lead, local) : lead \in {"", "1", "2", "short"}, local \in 1..NumPhones}

\* A request that registers or updates a golfer, with the id of the URL
\* and the phone number that was typed.
golferRequest(from, body, id, phone) ==
  [from |-> from, body |-> body, weekend |-> FALSE, id |-> id, phone |-> phone]

\* POST /golfers
PostGolfer(name, phone) ==
  LET normalized == normalizePhone(phone)
      existing == getGolferByPhone(golfers, normalized)
  IN  /\ inbound' = golferRequest(Dashboard, <<"POST /golfers">>, NoGolfer, phone)
      /\ IF normalized = NoPhone
         THEN /\ reply' = [kind |-> "Invalid phone number"]
              /\ golfers' = golfers
         ELSE IF existing # NoGolfer
         THEN /\ reply' = [kind |-> "Phone number already registered"]
              /\ golfers' = golfers
         ELSE /\ Len(golfers) < MaxGolferRows
              /\ reply' = [kind |-> "success"]
              /\ golfers' = addGolfer(golfers, name, normalized)
      /\ sent' = NoSend
      /\ archive' = archive
      /\ UNCHANGED <<rosterVars, events, callVars>>

\* PUT /golfers/:id
PutGolfer(id, name, phone) ==
  LET normalized == normalizePhone(phone)
      existing == getGolferByPhone(golfers, normalized)
  IN  /\ inbound' = golferRequest(Dashboard, <<"PUT /golfers/:id">>, id, phone)
      /\ IF normalized = NoPhone
         THEN /\ reply' = [kind |-> "Invalid phone number"]
              /\ golfers' = golfers
         ELSE IF existing # NoGolfer /\ existing # id
         THEN /\ reply' = [kind |-> "Phone number already in use"]
              /\ golfers' = golfers
         ELSE /\ reply' = [kind |-> "success"]
              /\ golfers' = updateGolferName(updateGolferPhone(golfers, normalized, id),
                                             name, normalized)
      /\ sent' = NoSend
      /\ archive' = archive
      /\ UNCHANGED <<rosterVars, events, callVars>>

\* DELETE /golfers/:id
DeleteGolfer(id) ==
  /\ inbound' = golferRequest(Dashboard, <<"DELETE /golfers/:id">>, id, RawPhone("short", 0))
  /\ reply' = [kind |-> "success"]
  /\ golfers' = deactivateGolfer(golfers, id)
  /\ sent' = NoSend
  /\ archive' = archive
  /\ UNCHANGED <<rosterVars, events, callVars>>

\* handleManagerMessage, command 'add Name Phone'
ManagerAdd(name, phone) ==
  LET number == addCommandPhone(phone)
  IN  /\ inbound' = golferRequest(ManagerPhone, <<"add">>, NoGolfer, phone)
      /\ IF number = NoPhone
         THEN /\ reply' = [kind |-> "Format: add Name 5551234567"]
              /\ golfers' = golfers
         ELSE /\ Len(addGolfer(golfers, name, number)) <= MaxGolferRows
              /\ reply' = [kind |-> "Added", name |-> name, phone |-> number]
              /\ golfers' = addGolfer(golfers, name, number)
      /\ sent' = NoSend
      /\ archive' = archive
      /\ UNCHANGED <<rosterVars, events, callVars>>

\* After construction: no golfer, no event, no rows.
InitGolfers ==
  /\ responses = <<>>
  /\ guests = <<>>
  /\ last = NoCall
  /\ waitQueue = <<>>
  /\ events = <<>>
  /\ inbound = NoInbound
  /\ reply = NoReply
  /\ pending = {}
  /\ serial = [responses |-> <<>>, guests |-> <<>>]
  /\ golfers = <<>>
  /\ sent = NoSend
  /\ archive = Untracked

\* The manager keeps the golfer records and announces events to them.
NextGolfers ==
  \/ \E name \in Names, phone \in RawPhones : PostGolfer(name, phone)
  \/ \E id \in 1..MaxGolferRows, name \in Names, phone \in RawPhones : PutGolfer(id, name, phone)
  \/ \E id \in 1..MaxGolferRows : DeleteGolfer(id)
  \/ \E name \in Names, phone \in RawPhones : ManagerAdd(name, phone)
  \/ \E delivery \in Deliveries(phonesOf(golfers)) : ManagerAnnounce(delivery)
  \/ \E testMode \in BOOLEAN, delivery \in Deliveries(phonesOf(golfers)) :
        DashboardCreate(testMode, delivery)
  \/ DashboardClose

SpecGolfers == InitGolfers /\ [][NextGolfers]_vars

\* ------------------------------------------------------ calls in flight
\* recordResponse runs without interruption up to its first await. An 'in'
\* call has none. An 'out' call of a golfer who held a position <= 16 awaits
\* bumpWaitlist, which has run getFirstWaitlisted, the scan and
\* updatePosition by then and is itself suspended at await sendSMS when it
\* promoted somebody; the call keeps waitlisted and newPosition across the
\* await. What it does after the await writes no table.

\* Variant of resumeAfterSend in which updatePosition comes after the await.
resumeAfterSendUpdatesPosition(resp, c) ==
  IF c.bumped # NoGolfer THEN updatePosition(resp, c.bumped, c.newPosition) ELSE resp

\* bumpWaitlist and recordResponse after the await: console.log, return.
resumeAfterSend(resp, c) == resp

\* Variant of resumeAfterReject that undoes the promotion when the notice
\* could not be delivered.
resumeAfterRejectRollsBack(resp, c) ==
  IF c.bumped # NoGolfer /\ c.bumped \in InGolfers(resp)
  THEN updatePosition(resp, c.bumped, getNextWaitlistPosition(resp))
  ELSE resp

\* bumpWaitlist and recordResponse when sendSMS rejects: neither has a
\* try/catch, so the error leaves both without another statement running.
resumeAfterReject(resp, c) == resp

\* The call is suspended when it reaches `await bumpWaitlist(eventId)`.
suspends(resp, g) ==
  wasInOf(resp, g) /\ previousPositionOf(resp, g) # NullPos
    /\ previousPositionOf(resp, g) <= MAX_PLAYERS

ConcGolfers == 1..NumConcGolfers

\* A call recordResponse(g, e, 'in', guestCount) begins and returns its
\* message.
ConcIn(g, guestCount) ==
  LET r == recordIn(responses, guests, g, guestCount)
      sr == recordIn(serial.responses, serial.guests, g, guestCount)
  IN  /\ MaxHeld(r.responses, r.guests) <= MaxPosition
      /\ responses' = r.responses
      /\ guests' = r.guests
      /\ last' = [golfer |-> g, status |-> "in", guestCount |-> guestCount,
                  wasIn |-> wasInOf(responses, g),
                  previousPosition |-> NullPos, position |-> r.position,
                  bumped |-> NoGolfer, newPosition |-> NullPos]
      /\ waitQueue' = queueAfter(waitQueue, r.responses)
      /\ serial' = [responses |-> sr.responses, guests |-> sr.guests]
      /\ reply' = [kind |-> inMessage(responses, guests, g, guestCount).text]
      /\ UNCHANGED <<events, inbound, pending>>
      /\ quiet

\* A call recordResponse(g, e, 'out') begins and runs to its await (nothing
\* is returned yet), or to its end when it has none.
ConcOut(g) ==
  \E waitlisted \in firstWaitlistedAfterOut(responses, g) :
    LET r == recordOut(responses, guests, g, waitlisted)
        choices == firstWaitlistedAfterOut(serial.responses, g)
        sr == recordOut(serial.responses, serial.guests, g,
                        IF waitlisted \in choices THEN waitlisted
                        ELSE CHOOSE w \in choices : TRUE)
    IN  /\ Cardinality(pending) < MaxInFlight
        /\ responses' = r.responses
        /\ guests' = r.guests
        /\ last' = [golfer |-> g, status |-> "out", guestCount |-> 0,
                    wasIn |-> wasInOf(responses, g),
                    previousPosition |-> previousPositionOf(responses, g),
                    position |-> NullPos,
                    bumped |-> r.bumped, newPosition |-> r.newPosition]
        /\ waitQueue' = queueAfter(waitQueue, r.responses)
        /\ serial' = [responses |-> sr.responses, guests |-> sr.guests]
        /\ pending' = IF suspends(responses, g)
                      THEN pending \cup {[call |-> "recordResponse", golfer |-> g,
                                          bumped |-> r.bumped,
                                          newPosition |-> r.newPosition]}
                      ELSE pending
        /\ reply' = IF suspends(responses, g) THEN NoReply
                    ELSE [kind |-> "Got it, you're out."]
        /\ UNCHANGED <<events, inbound>>
        /\ quiet

\* app.post('/sms'): the text the webhook sends back for what the handler
\* gave it, the handler's text, or the text of the catch block when the
\* handler's promise was rejected.
webhookReply(result) ==
  IF result.kind = "rejected"
  THEN [kind |-> "Something went wrong. Please try again."]
  ELSE result

\* A suspended 'out' call resumes and ends: it returns its message when
\* sendSMS was fulfilled, and rejects with the error of sendSMS otherwise.
\* bumpWaitlist calls sendSMS only for a golfer it promoted; without one it
\* returns null and the call cannot be rejected.
ConcResume(c, delivered) ==
  /\ c.call = "recordResponse"
  /\ c.bumped = NoGolfer => delivered
  /\ responses' = IF delivered THEN resumeAfterSend(responses, c)
                 ELSE resumeAfterReject(responses, c)
  /\ last' = [golfer |-> c.golfer,
              status |-> IF delivered THEN "out returned" ELSE "out rejected",
              guestCount |-> 0, wasIn |-> TRUE,
              previousPosition |-> NullPos, position |-> NullPos,
              bumped |-> c.bumped, newPosition |-> c.newPosition]
  /\ waitQueue' = queueAfter(waitQueue, responses')
  /\ pending' = pending \ {c}
  /\ reply' = IF delivered THEN [kind |-> "Got it, you're out."]
              ELSE [kind |-> "rejected"]
  /\ UNCHANGED <<guests, events, inbound, serial>>
  /\ quiet

NextConc ==
  \/ \E g \in ConcGolfers, guestCount \in GuestCounts : ConcIn(g, guestCount)
  \/ \E g \in ConcGolfers : ConcOut(g)
  \/ \E c \in pending, delivered \in BOOLEAN : ConcResume(c, delivered)
  \/ ManagerStatus(ConcGolfers)
  \/ DashboardStatus(ConcGolfers)

SpecConc == Init /\ [][NextConc]_vars

\* The scenario of seventeen: the golfers reply IN in the order of their
\* numbers, without guests; when exactly MAX_PLAYERS + 1 are in, a confirmed
\* one may reply OUT, which ends the replies. The manager may ask for the
\* status at any time.
ScenarioIn ==
  /\ last.status # "out"
  /\ \E g \in SeqGolfers \ DOMAIN responses :
        /\ \A h \in SeqGolfers \ DOMAIN responses : g <= h
        /\ RecordIn(g, 0)

ScenarioOut ==
  /\ last.status # "out"
  /\ Cardinality(DOMAIN responses) = MAX_PLAYERS + 1
  /\ \E k \in DOMAIN responses :
        /\ responses[k].position <= MAX_PLAYERS
        /\ RecordOut(k)

NextScenario ==
  \/ ScenarioIn
  \/ ScenarioOut
  \/ ManagerStatus(SeqGolfers)

SpecScenario == Init /\ [][NextScenario]_vars

\* ------------------------------------------------------ roster vocabulary
\* Position q is held by an in-response or by a guest.
HeldByResponse(resp, q) == \E g \in DOMAIN resp : resp[g].status = "in" /\ resp[g].position = q
HeldByGuest(gs, q) == \E i \in 1..Len(gs) : gs[i].position = q
Held(resp, gs, q) == HeldByResponse(resp, q) \/ HeldByGuest(gs, q)

ConfirmedGolfers(resp) == {g \in DOMAIN resp : resp[g].status = "in" /\ resp[g].position <= 16}
WaitingGolfers(resp) == {g \in DOMAIN resp : resp[g].status = "in" /\ resp[g].position > 16}
ConfirmedGuests(gs) == {i \in 1..Len(gs) : gs[i].position <= 16}
WaitingGuests(gs) == {i \in 1..Len(gs) : gs[i].position > 16}
ConfirmedCount(resp, gs) == Cardinality(ConfirmedGolfers(resp)) + Cardinality(ConfirmedGuests(gs))
EntryCount(resp, gs) == Cardinality({g \in DOMAIN resp : resp[g].status = "in"}) + Len(gs)

\* The step is a call recordResponse(g, 'out') / recordResponse(g, 'in', _).
IsOutOf(g) == last'.golfer = g /\ last'.status = "out"
IsInOf(g) == last'.golfer = g /\ last'.status = "in"
\* ... of a golfer holding a confirmed position
IsOutOfConfirmed(g) == IsOutOf(g) /\ g \in ConfirmedGolfers(responses)
\* ... a new in: the golfer had no in-response
IsNewInOf(g) == IsInOf(g) /\ ~(g \in DOMAIN responses /\ responses[g].status = "in")

\* Golfers promoted by the step: waitlisted before, confirmed after.
PromotedBy == {h \in WaitingGolfers(responses) : h \in ConfirmedGolfers(responses')}

\* ------------------------------------------------------------------ C1
\* C1: the entries holding a confirmed position (in-responses and guests
\* with position <= 16) are never more than 16.
C1_CapacityBound == ConfirmedCount(responses, guests) <= 16

\* A promotion has just refilled the roster to 16 confirmed entries while a
\* guest still waits.
C1_Witness ==
  /\ last.bumped # NoGolfer
  /\ ConfirmedCount(responses, guests) = 16
  /\ WaitingGuests(guests) # {}

\* ------------------------------------------------------------------ C2
\* C2: no two entries among the event's in-responses and guests hold the
\* same position.
C2_PositionsUnique ==
  /\ \A g, h \in DOMAIN responses :
        (g # h /\ responses[g].status = "in" /\ responses[h].status = "in")
          => responses[g].position # responses[h].position
  /\ \A i, j \in 1..Len(guests) : i # j => guests[i].position # guests[j].position
  /\ \A g \in DOMAIN responses : \A i \in 1..Len(guests) :
        responses[g].status = "in" => responses[g].position # guests[i].position

\* ------------------------------------------------------------------ C3
\* C3: when a confirmed golfer records out while some entry of the event
\* (a response, or a guest of another host) is waitlisted, exactly one
\* waitlisted entry is promoted to a position <= 16 and no other waitlisted
\* entry changes.
C3_ExactlyOnePromoted ==
  [][\A g \in Golfers :
       (/\ IsOutOfConfirmed(g)
        /\ \/ WaitingGolfers(responses) # {}
           \/ \E i \in WaitingGuests(guests) : guests[i].host # g)
       => /\ Cardinality(PromotedBy) = 1
          /\ \A h \in WaitingGolfers(responses) \ PromotedBy : responses'[h] = responses[h]
          /\ guests' = SelectSeq(guests, LAMBDA r : r.host # g)]_vars

\* ------------------------------------------------------------------ C4
\* C4: a promoted entry had the smallest position among all entries
\* waitlisted when it was promoted, responses and guests combined.
C4_LowestWaitlistedPromoted ==
  [][\A b \in PromotedBy :
       /\ \A h \in WaitingGolfers(responses) : responses[b].position <= responses[h].position
       /\ \A i \in WaitingGuests(guests') : responses[b].position <= guests'[i].position]_vars

\* ------------------------------------------------------------------ C5
\* C5: a promoted entry gets the smallest number of 1..16 that no in-response
\* and no guest holds at that moment; bumpWaitlist promotes nobody and
\* returns null when there is no such number.
FreeSlots(resp, gs) == {q \in 1..16 : ~Held(resp, gs, q)}
C5_FirstFit ==
  /\ last.bumped # NoGolfer =>
        LET others == [h \in DOMAIN responses \ {last.bumped} |-> responses[h]]
            free == FreeSlots(others, guests)
        IN  /\ last.newPosition = responses[last.bumped].position
            /\ last.newPosition \in free
            /\ \A q \in free : last.newPosition <= q
  /\ \A w \in getFirstWaitlisted(responses) :
        LET b == bumpWaitlist(responses, guests, w)
            free == FreeSlots(responses, guests)
        IN  IF free = {}
            THEN b.bumped = NoGolfer /\ b.responses = responses
            ELSE /\ b.bumped = w
                 /\ b.responses[w].position \in free
                 /\ \A q \in free : b.responses[w].position <= q
                 /\ \A h \in DOMAIN responses \ {w} : b.responses[h] = responses[h]

\* A golfer was promoted to a position other than the one just vacated.
C5_Witness ==
  /\ last.bumped # NoGolfer
  /\ last.previousPosition # NullPos
  /\ responses[last.bumped].position # last.previousPosition

\* ------------------------------------------------------------------ C6
\* C6: of two golfers on the waitlist, the one put there later is never
\* promoted while the one put there earlier is still waitlisted.
C6_FirstComeFirstServed ==
  [][\A i, j \in 1..Len(waitQueue) :
       (i < j /\ waitQueue[j] \in PromotedBy)
         => waitQueue[i] \notin WaitingGolfers(responses')]_vars

\* The head of a waitlist of two or more golfers has just been promoted.
C6_Witness ==
  /\ last.bumped # NoGolfer
  /\ Len(waitQueue) >= 1
  /\ last.bumped \in ConfirmedGolfers(responses)

\* ------------------------------------------------------------------ C7
\* C7: a golfer recording a new in is never given a position <= 16 while a
\* golfer who recorded in earlier and has not gone out is waitlisted.
C7_FirstSixteenIn ==
  [][\A g \in Golfers :
       (IsNewInOf(g) /\ responses'[g].position <= 16)
         => WaitingGolfers(responses) = {}]_vars

\* ------------------------------------------------------------------ C8
\* C8: the position given to a new in, and to each guest added, is not held
\* by another entry and is not the position the preceding call's
\* cancellation vacated (unless a promotion refilled it).
AddedGuests == {i \in 1..Len(guests') : i > Len(guests)}
NewPositions ==
  {responses'[g].position : g \in {h \in Golfers : IsNewInOf(h)}}
    \cup {guests'[i].position : i \in {j \in AddedGuests : last'.status = "in"}}
C8_NoPositionReuse ==
  [][\A q \in NewPositions :
       /\ ~Held(responses, guests, q)
       /\ ~(/\ last.status = "out" /\ last.wasIn
             /\ last.previousPosition = q
             /\ last.newPosition # q)]_vars

\* ------------------------------------------------------------------ C9
\* C9: from an empty roster, when distinct golfers record in one after
\* another without guests, the k-th of them gets position k: the positions
\* are 1..n, the confirmed ones 1..min(n,16).
C9_SequentialPositions ==
  LET n == Cardinality(DOMAIN responses)
  IN  /\ guests = <<>>
      /\ \A g \in DOMAIN responses : responses[g].status = "in"
      /\ {responses[g].position : g \in DOMAIN responses} = 1..n
      /\ last.golfer # NoGolfer =>
            /\ last.position = n
            /\ responses[last.golfer].position = n
      /\ {responses[g].position : g \in ConfirmedGolfers(responses)}
            = 1..(IF n < 16 THEN n ELSE 16)
      /\ Cardinality(ConfirmedGolfers(responses)) = (IF n < 16 THEN n ELSE 16)

\* More than 16 golfers have recorded in.
C9_Witness ==
  /\ Cardinality(DOMAIN responses) > 16
  /\ responses[last.golfer].position > 16

\* ------------------------------------------------------------------ C10
\* C10: with n >= 16 entries in (in-responses plus guests), a new in gets
\* position n + 1, and not the waitlist position the preceding call's
\* cancellation gave up.
C10_NextWaitlistRank ==
  [][\A g \in Golfers :
       (IsNewInOf(g) /\ EntryCount(responses, guests) >= 16)
         => /\ responses'[g].position = EntryCount(responses, guests) + 1
            /\ ~(/\ last.status = "out" /\ last.wasIn
                  /\ last.previousPosition > 16
                  /\ responses'[g].position = last.previousPosition)]_vars

\* ------------------------------------------------------------------ C11
\* C11: when G1..G17 have recorded in in that order without guests and a
\* confirmed Gk then records out, G17 holds position k, and the summary
\* shows 16 confirmed with G17 among them, nobody on the waitlist and Gk
\* as the only out.
SummaryShowsPromotion(s, k) ==
  /\ Len(s.confirmed) = 16
  /\ \E i \in 1..Len(s.confirmed) :
        s.confirmed[i] = [golfer |-> MAX_PLAYERS + 1, guest |-> FALSE]
  /\ \A i \in 1..Len(s.confirmed) : s.confirmed[i].golfer # k
  /\ s.waitlist = <<>>
  /\ s.out = {k}
C11_SeventeenScenario ==
  last.status = "out" =>
    /\ last.previousPosition = last.golfer
    /\ responses[MAX_PLAYERS + 1].status = "in"
    /\ responses[MAX_PLAYERS + 1].position = last.previousPosition
    /\ SummaryShowsPromotion(generateSummary(responses, guests, SeqGolfers), last.golfer)
    /\ (reply.kind = "summary" /\ reply.out # {})
          => SummaryShowsPromotion(reply, last.golfer)

\* The manager has asked for the status after G5's out.
C11_Witness ==
  /\ last.status = "out"
  /\ last.golfer = 5
  /\ responses[MAX_PLAYERS + 1].position = 5
  /\ reply.kind = "summary"
  /\ reply.out = {5}

\* ------------------------------------------------------------------ C12
\* C12: removing guests promotes nobody. When a golfer who is in records in
\* with fewer guests, or the dashboard deletes a guest, no response changes,
\* the guests that remain keep their positions, and no promotion notice is
\* sent; a promotion happens only in the out of a golfer who was confirmed.
CountRows(seq, r) == Cardinality({i \in 1..Len(seq) : seq[i] = r})
IsLowerGuestCount ==
  /\ last'.status = "in"
  /\ wasInOf(responses, last'.golfer)
  /\ last'.guestCount < Len(getGuestsByHost(guests, last'.golfer))
IsDashboardDelete == last'.status = "delete guest"
C12_GuestRemovalNoPromotion ==
  [][/\ (IsLowerGuestCount \/ IsDashboardDelete)
          => /\ responses' = responses
             /\ Len(guests') < Len(guests)
             /\ \A j \in 1..Len(guests') :
                   CountRows(guests', guests'[j]) <= CountRows(guests, guests'[j])
             /\ last'.bumped = NoGolfer
             /\ PromotedBy = {}
     /\ (PromotedBy # {} \/ last'.bumped # NoGolfer)
          => /\ last'.status \in {"out", "silent out"}
             /\ last'.golfer \in ConfirmedGolfers(responses)]_vars

\* The dashboard has deleted a guest, which left a confirmed slot free
\* while a golfer waits.
C12_Witness ==
  /\ last.status = "delete guest"
  /\ last.position <= MAX_PLAYERS
  /\ WaitingGolfers(responses) # {}
  /\ FreeSlots(responses, guests) # {}

\* ------------------------------------------------------------------ C13
\* C13: when a golfer records in with the same guest count twice in a row,
\* the second call leaves responses and guests as the first left them and
\* its message says that the golfer is already in.
IsRepeatedIn(g) ==
  /\ IsInOf(g)
  /\ last.golfer = g /\ last.status = "in"
  /\ last.guestCount = last'.guestCount
C13_Idempotence ==
  [][\A g \in Golfers :
       IsRepeatedIn(g)
         => /\ responses' = responses
            /\ guests' = guests
            /\ last'.position = last.position
            /\ inMessage(responses, guests, g, last'.guestCount).text
                  \in {"You're already in", "You're already on waitlist"}]_vars

\* ------------------------------------------------------------------ C14
\* C14: when the roster holds n entries at the positions 1..n and a golfer
\* without in-response records in with k guests, the golfer gets position
\* n + 1, the k guests get n + 2 .. n + 1 + k in that order, and the count
\* of in-responses and guests becomes n + 1 + k.
HeldPositions(resp, gs) ==
  {resp[g].position : g \in InGolfers(resp)} \cup {gs[i].position : i \in 1..Len(gs)}
C14_NewInWithGuests ==
  [][\A g \in Golfers :
       LET n == EntryCount(responses, guests)
           k == last'.guestCount
       IN  (IsNewInOf(g) /\ HeldPositions(responses, guests) = 1..n)
             => /\ responses'[g].position = n + 1
                /\ Len(guests') = Len(guests) + k
                /\ \A j \in 1..k : guests'[Len(guests) + j] = [host |-> g, position |-> n + 1 + j]
                /\ EntryCount(responses', guests') = n + 1 + k]_vars

\* ------------------------------------------------------------------ C15
\* C15: at most one event is open in every state, whatever the order of
\* creations (announcement, dashboard with and without test mode) and
\* closes (CLOSED, dashboard close, Friday summary); a creation leaves
\* every earlier event closed and the new one open.
OpenEvents(ev) == {i \in 1..Len(ev) : ev[i] = "open"}
C15_AtMostOneOpen ==
  /\ [](Cardinality(OpenEvents(events)) <= 1)
  /\ [][Len(events') > Len(events)
          => /\ Len(events') = Len(events) + 1
             /\ \A i \in 1..Len(events) : events'[i] = "closed"
             /\ events'[Len(events')] = "open"]_vars

\* An event has just been created while an earlier one was open.
C15_Witness ==
  /\ reply.kind = "Event created"
  /\ reply.existing # NoEvent
  /\ events[reply.existing] = "closed"
  /\ OpenEvents(events) = {reply.eventId}

\* ------------------------------------------------------------------ C16
\* C16: every guest row of the event is hosted by a golfer whose response
\* for the event has status in; a host who is out, or has no response, has
\* no guest left.
C16_GuestsHaveHostIn ==
  \A i \in 1..Len(guests) :
    /\ guests[i].host \in DOMAIN responses
    /\ responses[guests[i].host].status = "in"

\* ------------------------------------------------------------------ C17
\* C17: at the end of every recordResponse call the positions of the
\* in-responses and guests are distinct and form 1..n without gaps, except
\* for positions <= 16 that a cancellation freed and no promotion has
\* filled: a missing number is never above 16, and only an out adds one.
Gaps(resp, gs) == (1..MaxHeld(resp, gs)) \ HeldPositions(resp, gs)
C17_GapFree ==
  [][/\ Cardinality(HeldPositions(responses', guests')) = EntryCount(responses', guests')
     /\ \A q \in Gaps(responses', guests') : q <= 16
     /\ last'.status = "in"
          => Gaps(responses', guests') \subseteq Gaps(responses, guests)]_vars

\* ------------------------------------------------------------------ C18
\* C18: when the text of a registered golfer parses as IN (with N guests)
\* or OUT while an event is open and it is not Saturday or Sunday, the
\* handler records it: afterwards the golfer's response has the parsed
\* status and, for IN, the golfer hosts N guests.
IsGolferSms == inbound'.from \in SmsGolfers
C18_ParsedReplyRecorded ==
  [][LET g == inbound'.from
         parsed == parseGolferResponse(inbound'.body)
     IN  (/\ IsGolferSms
          /\ getActiveEvent(events) # NoEvent
          /\ ~inbound'.weekend
          /\ parsed # NoParse)
           => /\ g \in DOMAIN responses'
              /\ responses'[g].status = parsed.status
              /\ parsed.status = "in"
                   => Len(getGuestsByHost(guests', g)) = parsed.guests]_vars

\* ------------------------------------------------------------------ C19
\* C19 as claimed: a text of a registered golfer that matches neither reply
\* grammar, received while an event is open, is answered with "Reply IN or
\* OUT" and changes no response, no guest and no event.
NonsenseTexts == {<<"banana">>, <<"in", "banana">>}
IsNonsenseSms ==
  /\ IsGolferSms
  /\ inbound'.body \in NonsenseTexts
  /\ getActiveEvent(events) # NoEvent
C20_SerialOutcome ==
  pending = {} => /\ responses = serial.responses
                  /\ guests = serial.guests

\* An out that promoted a golfer has returned after that golfer cancelled
\* while the call was suspended, and no call is left in flight.
C20_Witness ==
  /\ pending = {}
  /\ last.status = "out returned"
  /\ last.bumped # NoGolfer
  /\ responses[last.bumped].status = "out"

\* ------------------------------------------------------------------ C21
\* C21: a status query (STATUS or GET /event/status) that runs while a
\* recordResponse call is suspended sees every call that has begun fully
\* applied: what it returns is computed from the tables of the serial
\* execution; right after the out of a confirmed golfer it shows that golfer
\* out without guests and the promoted golfer confirmed at the new position;
\* right after an in it shows the golfer with the guests of that call.
IsStatusQuery == reply'.kind \in {"summary", "status"}
\* The suspended call c is the call that ran last.
IsLatestCall(c) ==
  /\ last.status = "out"
  /\ last.golfer = c.golfer
  /\ last.wasIn /\ last.previousPosition # NullPos /\ last.previousPosition <= MAX_PLAYERS
  /\ last.bumped = c.bumped
  /\ last.newPosition = c.newPosition
ShownGolfers(list) == {list[i].golfer : i \in {j \in 1..Len(list) : ~list[j].guest}}
ShownGuestsOf(r, g) ==
  Cardinality({i \in 1..Len(r.confirmed) : r.confirmed[i].guest /\ r.confirmed[i].golfer = g})
    + Cardinality({i \in 1..Len(r.waitlist) : r.waitlist[i].guest /\ r.waitlist[i].golfer = g})
ShownOut(r) == IF r.kind = "summary" THEN r.out ELSE {x.golfer : x \in r.out}
C21_ConsistentSnapshot ==
  [][(IsStatusQuery /\ pending # {})
       => /\ reply' = IF reply'.kind = "summary"
                      THEN generateSummary(serial.responses, serial.guests, ConcGolfers)
                      ELSE getEventStatusData(serial.responses, serial.guests, ConcGolfers)
          /\ \A c \in pending :
                IsLatestCall(c)
                  => /\ c.golfer \in ShownOut(reply')
                     /\ ShownGuestsOf(reply', c.golfer) = 0
                     /\ last.bumped # NoGolfer
                          => /\ last.bumped \in ShownGolfers(reply'.confirmed)
                             /\ reply'.kind = "status"
                                  => \E i \in 1..Len(reply'.confirmed) :
                                        reply'.confirmed[i] =
                                          [golfer |-> last.bumped, guest |-> FALSE,
                                           position |-> last.newPosition]
                     /\ last.bumped = NoGolfer
                          => \/ ShownGolfers(reply'.waitlist) = {}
                             \/ FreeSlots(responses, guests) = {}
          /\ last.status = "in"
               => /\ last.golfer \in ShownGolfers(reply'.confirmed)
                                       \cup ShownGolfers(reply'.waitlist)
                  /\ ShownGuestsOf(reply', last.golfer) = last.guestCount]_vars

\* The dashboard has read the status while the out that promoted a golfer
\* is still suspended at its await.
C21_Witness ==
  /\ reply.kind = "status"
  /\ \E c \in pending :
        /\ IsLatestCall(c)
        /\ c.bumped # NoGolfer
        /\ \E i \in 1..Len(reply.confirmed) :
              reply.confirmed[i] = [golfer |-> c.bumped, guest |-> FALSE,
                                    position |-> c.newPosition]

\* ------------------------------------------------------------------ C22
\* C22: when sendSMS rejects the promotion notice of a confirmed golfer's
\* out, nothing is rolled back: the step in which the call ends with the
\* error changes no response and no guest, and when it is the call that ran
\* last, the golfer is still out without guests and the promoted golfer
\* still holds the new position.
IsRejectedOut(c) ==
  /\ c \in pending
  /\ c \notin pending'
  /\ last'.status = "out rejected"
  /\ last'.golfer = c.golfer
C22_NoRollback ==
  [][\A c \in pending :
       IsRejectedOut(c)
         => /\ responses' = responses
            /\ guests' = guests
            /\ IsLatestCall(c)
                 => /\ responses'[c.golfer] = [status |-> "out", position |-> NullPos]
                    /\ getGuestsByHost(guests', c.golfer) = <<>>
                    /\ c.bumped # NoGolfer
                         => /\ responses'[c.bumped].status = "in"
                            /\ responses'[c.bumped].position = c.newPosition
                            /\ c.newPosition <= MAX_PLAYERS]_vars

\* The out of a host of guests has ended with the error of sendSMS, and
\* the golfer it promoted is confirmed.
C22_Witness ==
  /\ last.status = "out rejected"
  /\ reply.kind = "rejected"
  /\ last.bumped # NoGolfer
  /\ responses[last.golfer].status = "out"
  /\ responses[last.bumped].status = "in"
  /\ responses[last.bumped].position = last.newPosition
  /\ guests = <<>>

\* ------------------------------------------------------------------ C23
\* C23: sendToMany aggregates partial success. Whatever the provider does
\* with each message, it calls sendSMS for every phone of the list, is
\* fulfilled and never rejected, and counts succeeded + failed = the number
\* of phones; the event that createEventAndNotify created is open afterwards
\* whatever the deliveries were.
Aggregates(r, phoneNumbers, delivery) ==
  /\ r.outcome = "fulfilled"
  /\ Len(r.results) = Len(phoneNumbers)
  /\ \A i \in 1..Len(phoneNumbers) :
        /\ r.results[i].to = phoneNumbers[i]
        /\ r.results[i].status = "fulfilled" <=> delivery[phoneNumbers[i]]
  /\ r.succeeded = Cardinality({i \in 1..Len(phoneNumbers) : delivery[phoneNumbers[i]]})
  /\ r.succeeded + r.failed = Len(phoneNumbers)
IsAnnouncement == inbound'.body \in {<<"golf">>, <<"event/create">>}
C23_BulkSendAggregates ==
  /\ [](\A delivery \in Deliveries(phonesOf(golfers)) :
          Aggregates(sendToMany(phonesOf(golfers), delivery), phonesOf(golfers), delivery))
  /\ [][IsAnnouncement
          => /\ Len(events') = Len(events) + 1
             /\ getActiveEvent(events') = Len(events')
             /\ reply' = [kind |-> "Event created", eventId |-> Len(events'),
                          existing |-> getActiveEvent(events)]
             /\ golfers' = golfers
             /\ sent'.outcome # "rejected"
             /\ (inbound'.body = <<"golf">> /\ Len(phonesOf(golfers)) > 0)
                  => sent'.outcome = "fulfilled"
             /\ sent'.outcome = "fulfilled"
                  => \E delivery \in Deliveries(phonesOf(golfers)) :
                        Aggregates(sent', phonesOf(golfers), delivery)]_vars

\* An announcement went to two golfers, one message was accepted and one
\* was not, and the event is open.
C23_Witness ==
  /\ inbound.body = <<"golf">>
  /\ sent.succeeded = 1
  /\ sent.failed = 1
  /\ getActiveEvent(events) = Len(events)
  /\ reply.kind = "Event created"

\* ------------------------------------------------------------------ C24
\* C24: no two golfers share a phone, and a registration (POST /golfers,
\* command ADD) or an update (PUT /golfers/:id) with a phone that another
\* golfer holds is answered with an error and leaves table golfers as it
\* was.
IsRegistration == inbound'.body \in {<<"POST /golfers">>, <<"PUT /golfers/:id">>, <<"add">>}
RequestedPhone ==
  IF inbound'.body = <<"add">> THEN addCommandPhone(inbound'.phone)
  ELSE normalizePhone(inbound'.phone)
HeldByAnother ==
  /\ RequestedPhone # NoPhone
  /\ \E i \in 1..Len(golfers) : golfers[i].phone = RequestedPhone /\ i # inbound'.id
DuplicatePhoneErrors == {"Phone number already registered", "Phone number already in use"}
C24_DuplicatePhoneRejected ==
  /\ [](\A i, j \in 1..Len(golfers) : i # j => golfers[i].phone # golfers[j].phone)
  /\ [][(IsRegistration /\ HeldByAnother)
          => /\ reply'.kind \in DuplicatePhoneErrors
             /\ golfers' = golfers]_vars

\* ------------------------------------------------------------------ C25
\* C25: when an event has been closed and none is open, every text of a
\* registered golfer, a well-formed IN or OUT included, is forwarded to the
\* manager with the sender's name before it and changes no response and no
\* guest.
NoneOpenAfterClose == Len(events) > 0 /\ OpenEvents(events) = {}
ListedAs(list, g) == Cardinality({i \in 1..Len(list) : ~list[i].guest /\ list[i].golfer = g})
Listings(v, g) ==
  ListedAs(v.confirmed, g) + ListedAs(v.waitlist, g)
    + (IF g \in ShownOut(v) THEN 1 ELSE 0) + (IF g \in v.noResponse THEN 1 ELSE 0)
GuestListings(v, i) ==
  Cardinality({j \in 1..Len(v.confirmed) : v.confirmed[j].guest /\ v.confirmed[j].row = i})
    + Cardinality({j \in 1..Len(v.waitlist) : v.waitlist[j].guest /\ v.waitlist[j].row = i})
GuestEntries(v) ==
  Cardinality({j \in 1..Len(v.confirmed) : v.confirmed[j].guest})
    + Cardinality({j \in 1..Len(v.waitlist) : v.waitlist[j].guest})
ViewGolfers == 1..(NumDashGolfers + 1)
C26_ViewsPartition ==
  \A active \in SUBSET ViewGolfers :
    LET summary == generateSummary(responses, guests, active)
        status == getEventStatusData(responses, guests, active)
    IN  /\ \A g \in active : Listings(summary, g) = 1 /\ Listings(status, g) = 1
        /\ \A i \in 1..Len(guests) : GuestListings(status, i) = 1
        /\ GuestEntries(status) = Len(guests)
        /\ GuestEntries(summary) = Len(guests)
        /\ \A h \in ViewGolfers :
              ShownGuestsOf(summary, h) = Len(getGuestsByHost(guests, h))

\* A roster with guests on both sides of position 16, a golfer who is out
\* and a golfer who is in.
C26_Witness ==
  /\ ConfirmedGuests(guests) # {}
  /\ WaitingGuests(guests) # {}
  /\ \E g \in DOMAIN responses : responses[g].status = "out"
  /\ InGolfers(responses) # {}

\* ------------------------------------------------------------------ C27
\* C27: in the SMS summary and in the dashboard status, the confirmed list
\* and the waitlist are in ascending order of position, golfers and guests
\* interleaved: the dashboard's lists ascend, and the summary names the
\* entries in the order of the dashboard's lists.
Ascending(list) ==
  \A i, j \in 1..Len(list) : i < j => list[i].position <= list[j].position
C27_ListsByPosition ==
  LET summary == generateSummary(responses, guests, Golfers)
      status == getEventStatusData(responses, guests, Golfers)
  IN  /\ Ascending(status.confirmed)
      /\ Ascending(status.waitlist)
      /\ summary.confirmed = names(status.confirmed)
      /\ summary.waitlist = names(status.waitlist)

\* ---------------------------------------------------------------- C28
\* What a silent call leaves in the tables: the responses it writes and the
\* guests it never touches.
silentIn(g) == [responses |-> recordInSilent(responses, g).responses, guests |-> guests]
silentOut(g, waitlisted) ==
  [responses |-> recordOutSilent(responses, g, waitlisted).responses, guests |-> guests]
normalIn(g) ==
  LET r == recordIn(responses, guests, g, 0)
  IN  [responses |-> r.responses, guests |-> r.guests]
normalOut(g, waitlisted) ==
  LET r == recordOut(responses, guests, g, waitlisted)
  IN  [responses |-> r.responses, guests |-> r.guests]

\* C28: from every roster state, for every golfer and status,
\* recordResponseSilent leaves responses and guests as recordResponse with
\* guest count 0 does, and bumpWaitlistSilent promotes the same entry to
\* the same position as bumpWaitlist.
C28_SilentAsNormal ==
  /\ \A g \in DashGolfers : silentIn(g) = normalIn(g)
  /\ \A g \in DashGolfers :
       \A waitlisted \in firstWaitlistedAfterOut(responses, g) :
         silentOut(g, waitlisted) = normalOut(g, waitlisted)
  /\ \A w \in getFirstWaitlisted(responses) :
       bumpWaitlistSilent(responses, w) = bumpWaitlist(responses, guests, w)

\* ---------------------------------------------------------------- C29
\* A reply of a golfer who has a row: the call of the step is that golfer's
\* in or out, by SMS or from the dashboard.
IsReplyOf(g) ==
  /\ last'.golfer = g
  /\ last'.status \in {"in", "out", "silent in", "silent out"}
  /\ g \in DOMAIN responses

\* C29: in every reachable state a response with status out has a null
\* position and a response with status in has an integer position >= 1,
\* and a golfer has at most one response: the table holds one row per
\* golfer of the club, and a reply of a golfer who has a row changes that
\* row and adds none.
C29_ResponseRows ==
  /\ [](/\ DOMAIN responses \subseteq Golfers
        /\ \A g \in DOMAIN responses :
             /\ responses[g].status \in {"in", "out"}
             /\ responses[g].status = "out" => responses[g].position = NullPos
             /\ responses[g].status = "in" =>
                  /\ responses[g].position \in Nat
                  /\ responses[g].position >= 1)
  /\ [][\A g \in Golfers : IsReplyOf(g) => DOMAIN responses' = DOMAIN responses]_vars

\* A golfer who was in at a position <= 16 has gone out (the row was
\* rewritten) while another golfer is in.
C29_Witness ==
  /\ last.status \in {"out", "silent out"}
  /\ last.wasIn
  /\ last.previousPosition >= 1
  /\ responses[last.golfer].status = "out"
  /\ \E g \in DOMAIN responses : responses[g].status = "in"

\* ------------------------------------------------------------------ C30
IsManagerCommand(command) ==
  inbound'.from = ManagerPhone /\ inbound'.body = <<command>>
rosterBefore == generateSummary(responses, guests, SmsGolfers)

\* C30: STATUS returns the summary and leaves the event open and the roster
\* unchanged; CLOSED returns the summary computed from the roster as it was
\* before closing and leaves the event closed; with no open event either
\* command changes nothing.
C30_StatusAndClosed ==
  [][LET event == getActiveEvent(events)
     IN  /\ (IsManagerCommand("status") /\ event # NoEvent)
              => /\ reply' = rosterBefore
                 /\ UNCHANGED <<responses, guests, events, golfers>>
                 /\ getActiveEvent(events') = event
         /\ (IsManagerCommand("closed") /\ event # NoEvent)
              => /\ reply' = rosterBefore
                 /\ UNCHANGED <<responses, guests, golfers>>
                 /\ events' = [events EXCEPT ![event] = "closed"]
                 /\ getActiveEvent(events') # event
         /\ (IsManagerCommand("status") /\ event = NoEvent)
              => /\ reply' = [kind |-> "No active event."]
                 /\ UNCHANGED <<responses, guests, events, golfers>>
         /\ (IsManagerCommand("closed") /\ event = NoEvent)
              => /\ reply' = [kind |-> "No active event to close."]
                 /\ UNCHANGED <<responses, guests, events, golfers>>]_vars

\* CLOSED has answered with the summary of a roster that has a confirmed
\* golfer and a golfer who is out, and no event is open.
C30_Witness ==
  /\ inbound.from = ManagerPhone
  /\ inbound.body = <<"closed">>
  /\ reply = generateSummary(responses, guests, SmsGolfers)
  /\ reply.confirmed # <<>>
  /\ reply.out # {}
  /\ Len(events) > 0
  /\ OpenEvents(events) = {}

\* ------------------------------------------------------------------ C31
\* C31: no one waits while a confirmed slot is free. At the end of every
\* recordResponse call, if an entry of the event (response or guest) is
\* waitlisted, every position 1..16 is held by an in-response or a guest.
SomeoneWaits == WaitingGolfers(responses) # {} \/ WaitingGuests(guests) # {}
C31_NoFreeSlotWhileWaiting ==
  SomeoneWaits => \A q \in 1..16 : Held(responses, guests, q)

\* ------------------------------------------------------------------ C32
\* a is b with some rows left out, the others in their order.
RECURSIVE IsSubSeq(_, _)
IsSubSeq(a, b) ==
  IF a = <<>> THEN TRUE
  ELSE IF b = <<>> THEN FALSE
  ELSE IF Head(a) = Head(b) THEN IsSubSeq(Tail(a), Tail(b))
  ELSE IsSubSeq(a, Tail(b))
IsPrefix(a, b) == Len(a) <= Len(b) /\ SubSeq(b, 1, Len(a)) = a
StaysIn(g) == g \in InGolfers(responses) /\ g \in InGolfers(responses')

\* C32: position stability. While a golfer stays in, their position never
\* increases and changes only in a promotion step, from a value > 16 to a
\* value <= 16; a confirmed entry never becomes waitlisted; a guest's
\* position never changes after it is created (a step adds rows behind the
\* existing ones or removes rows, the others keep host and position).
C32_PositionStability ==
  [][/\ \A g \in Golfers :
          StaysIn(g) =>
            /\ responses'[g].position <= responses[g].position
            /\ responses'[g].position # responses[g].position
                 => /\ last'.bumped = g
                    /\ responses[g].position > 16
                    /\ responses'[g].position <= 16
                    /\ responses'[g].position = last'.newPosition
     /\ IsPrefix(guests, guests') \/ IsSubSeq(guests', guests)]_vars

\* A waitlisted golfer has just been promoted while guests of a host who
\* stays in keep their rows.
C32_Witness ==
  /\ last.status = "out"
  /\ last.bumped # NoGolfer
  /\ last.newPosition <= 16
  /\ responses[last.bumped].position = last.newPosition
  /\ \E i \in 1..Len(guests) : guests[i].host \in InGolfers(responses)

\* ------------------------------------------------------------------ C33
\* The step is an out of g, who has no response, is out already, or is
\* waitlisted.
IsOutOfUnconfirmed(g) ==
  /\ IsOutOf(g)
  /\ \/ g \notin DOMAIN responses
     \/ responses[g].status = "out"
     \/ responses[g].position > 16

\* C33: an out from a golfer who has no response, is already out, or is
\* waitlisted triggers no promotion: no other golfer's response, no other
\* host's guest and no position changes, and no promotion notice is sent
\* (bumpWaitlist, which sends it, reports no promoted golfer).
C33_NoPromotionOnUnconfirmedOut ==
  [][\A g \in Golfers :
       IsOutOfUnconfirmed(g)
         => /\ DOMAIN responses' = DOMAIN responses \cup {g}
            /\ responses'[g] = [status |-> "out", position |-> NullPos]
            /\ \A h \in DOMAIN responses \ {g} : responses'[h] = responses[h]
            /\ guests' = SelectSeq(guests, LAMBDA r : r.host # g)
            /\ last'.bumped = NoGolfer
            /\ last'.newPosition = NullPos]_vars

\* A golfer who was not in has sent out while another golfer waits and a
\* position <= 16 is free: nobody was promoted.
C33_Witness ==
  /\ last.status = "out"
  /\ ~last.wasIn
  /\ last.bumped = NoGolfer
  /\ WaitingGolfers(responses) # {}
  /\ \E q \in 1..16 : ~Held(responses, guests, q)

\* ------------------------------------------------------------------ C34
\* C34: guest reconciliation reaches the requested count. After
\* recordResponse(golfer, event, in, k) has returned successfully, from any
\* prior state, the golfer is in and hosts exactly k guests in the event,
\* and the golfer's position, which the call returns, is what it was before
\* the call if they were in already.
C34_GuestCountReached ==
  [][\A g \in PartyGolfers :
       IsInOf(g)
         => /\ g \in InGolfers(responses')
            /\ Len(getGuestsByHost(guests', g)) = last'.guestCount
            /\ last'.position = responses'[g].position
            /\ g \in InGolfers(responses) => responses'[g].position = responses[g].position]_vars

\* A golfer who was in has sent in with one guest and hosts one guest, while
\* the other golfer is in with two.
C34_Witness ==
  /\ last.status = "in"
  /\ last.wasIn
  /\ last.guestCount = 1
  /\ Len(getGuestsByHost(guests, last.golfer)) = 1
  /\ \E h \in InGolfers(responses) : Len(getGuestsByHost(guests, h)) = MaxParty

\* ------------------------------------------------------------------ C37
\* The positions of the guests g hosts, ascending.
hostedPositions(gs, g) ==
  LET rows == sortByPosition(SelectSeq(gs, LAMBDA r : r.host = g))
  IN  [i \in 1..Len(rows) |-> rows[i].position]

\* C37: when a golfer who is in lowers their guest count from m to k < m,
\* the m-k guests removed are the ones with the highest positions among
\* that host's guests: the k lowest positions remain.
C37_HighestRemoved ==
  [][\A g \in PartyGolfers :
       (/\ IsInOf(g)
        /\ g \in InGolfers(responses)
        /\ last'.guestCount < Len(getGuestsByHost(guests, g)))
         => hostedPositions(guests', g)
              = SubSeq(hostedPositions(guests, g), 1, last'.guestCount)]_vars

\* ------------------------------------------------------------------ C35
\* The rows of tables responses and guests with event_id = id, when the
\* newest event is n.
rowsOfEvent(arch, resp, gs, n, id) ==
  IF id = n THEN [responses |-> resp, guests |-> gs] ELSE arch.rows[id]
IsCreation == Len(events') > Len(events)
ActiveGolfers(gf) == {i \in 1..Len(gf) : gf[i].active}

\* C35: creating a new event leaves the responses and guests of every
\* earlier event unchanged, and the new event starts with no responses and
\* no guests, so every active golfer is in its no-response view, in the
\* dashboard status and in the summary.
C35_NewEventStartsEmpty ==
  [][IsCreation
       => LET n == Len(events')
              new == rowsOfEvent(archive', responses', guests', n, n)
          IN  /\ n = Len(events) + 1
              /\ \A id \in 1..Len(events) :
                   rowsOfEvent(archive', responses', guests', n, id)
                     = rowsOfEvent(archive, responses, guests, Len(events), id)
              /\ new.responses = <<>>
              /\ new.guests = <<>>
              /\ getEventStatusData(new.responses, new.guests, ActiveGolfers(golfers')).noResponse
                   = ActiveGolfers(golfers')
              /\ generateSummary(new.responses, new.guests, ActiveGolfers(golfers')).noResponse
                   = ActiveGolfers(golfers')]_vars

\* An event has been created while the event before it was open with a
\* golfer in and a guest: those rows are kept under the earlier event.
C35_Witness ==
  /\ Len(events) >= 2
  /\ reply.kind = "Event created"
  /\ reply.eventId = Len(events)
  /\ reply.existing # NoEvent
  /\ responses = <<>>
  /\ LET before == archive.rows[Len(events) - 1]
     IN  InGolfers(before.responses) # {} /\ before.guests # <<>>

\* ------------------------------------------------------------------ C36
\* The step ends the suspended out call c.
EndsOut(c) == c.call = "recordResponse" /\ c \in pending /\ c \notin pending'

\* C36: a failure to deliver the promotion notice does not turn the
\* cancelling golfer's out into an error. Every out call that was suspended
\* at the notice returns "Got it, you're out.", and the SMS handler replies
\* with it and not with "Something went wrong".
C36_OutSurvivesNoticeFailure ==
  [][\A c \in pending :
       EndsOut(c)
         => /\ reply' = [kind |-> "Got it, you're out."]
            /\ webhookReply(reply') = [kind |-> "Got it, you're out."]]_vars

====
